---- MODULE Spec2Model ----
(***************************************************************************)
(* The demo chat backend (src/demo/chatbot-ui/backend/src/index.ts): the   *)
(* process-wide MCP session (mcpClient, mcpTransport, availableTools), the *)
(* reconnect-on-expiry retry of a tool invocation, the model/tool loop of  *)
(* processMessageWithClaude and the OAuth start-up path.                   *)
(*                                                                         *)
(* Node runs the code on one thread: an async function runs without        *)
(* interruption up to its next await, so one action is the code between    *)
(* two awaits, and the awaits are where tasks interleave.                  *)
(***************************************************************************)
EXTENDS Integers, Sequences, FiniteSets, TLC

VARIABLES
    clients,         \* the Client objects created so far: their connection status
    mcpClient,       \* index.ts:31  (0 is null, else an index of clients)
    mcpTransport,    \* index.ts:32  (0 is null, else the client it was made for)
    oauthProvider,   \* index.ts:33  ("null", or the provider's pending-auth marker)
    availableTools,  \* index.ts:34
    history,         \* conversationHistories.get(ws), index.ts:487
    messages,        \* the local message list of processMessageWithClaude
    request,         \* the parameters of the last anthropic.messages.create
    response,        \* the local response of processMessageWithClaude
    tpc,             \* where processMessageWithClaude is
    round,           \* tool rounds dispatched in this turn
    calls,           \* tool invocations dispatched in this turn
    wi,              \* the streaming loop's i
    inv,             \* the async callbacks of toolUseBlocks.map, one per block
    sent,            \* what ws.send was given, in order
    errAt,           \* which await of the turn threw into the catch of line 371
    st,              \* startup() / initializeMCPClient()
    cb,              \* the /oauth/callback handler
    sockets,         \* the WebSockets accepted by wss, index.ts:484: their readyState
    conversationHistories,  \* index.ts:487
    turns,           \* the activations of the message handler, index.ts:493
    wsSent,          \* per socket, what ws.send put on the wire, in order
    srv              \* the Polymarket server: the tool call it is handling

sessionVars == <<clients, mcpClient, mcpTransport, oauthProvider, availableTools>>
outerVars == <<sockets, conversationHistories, turns, wsSent, srv>>
turnVars == <<outerVars, history, messages, request, response, tpc, round, calls, wi, sent, errAt>>
vars == <<clients, mcpClient, mcpTransport, oauthProvider, availableTools,
          history, messages, request, response, tpc, round, calls, wi, inv, sent,
          errAt, st, cb, sockets, conversationHistories, turns, wsSent, srv>>

---------------------------------------------------------------------------
(* Bounds of the model *)

MaxBlocks == 2      \* tool_use blocks in one model response
MaxToolCalls == 2   \* tool_use blocks the model sends in one turn
MaxTextLen == 3     \* characters of an answer text
MaxHistory == 1     \* entries of the history when the message arrives
MaxCallbacks == 2   \* requests to /oauth/callback

(* a ceiling of three attempts instead of two *)
maxRetries_Three == 2 + 1

(* index.ts:301 *)
maxRetries == 2

---------------------------------------------------------------------------
(* Values *)

NULL == 0

(* Error values: a message is a sequence of fragments, so that             *)
(* String.includes can be computed.                                        *)
SessionExpiredText == "Session not found or expired"
Err(fragments) == [isError |-> TRUE, message |-> fragments]
ExpiredError == Err(<<"Error POSTing to endpoint (HTTP 404): ", SessionExpiredText>>)
ToolError == Err(<<"MCP error -32602: Invalid arguments">>)
ClosedError == Err(<<"MCP error -32000: Connection closed">>)
NotConnectedError == Err(<<"Not connected">>)
ConnectError == Err(<<"fetch failed">>)
ModelError == Err(<<"Anthropic API error">>)
NoProviderError == Err(<<"OAuth provider not initialized">>)
NoClientError == Err(<<"MCP client not initialized">>)
NoError == Err(<<>>)

(* errorMessage.includes(...), index.ts:321 *)
Includes(message, fragment) == \E k \in DOMAIN message : message[k] = fragment

(* error?.message || String(error), index.ts:318 *)
ErrorMessageOf(e) == IF e.message # <<>> THEN e.message ELSE <<"Error">>

(* error instanceof Error ? error.message : "Unknown error", index.ts:373 *)
ErrorTextOf(e) == IF e.isError THEN e.message ELSE <<"Unknown error">>

(* The tools a server lists, and their conversion (index.ts:141-145). *)
NoDescription == "undefined"
SearchTool == [name |-> "search_markets", description |-> "Search markets",
               inputSchema |-> "schema1"]
TradesTool == [name |-> "get_trades", description |-> NoDescription,
               inputSchema |-> "schema2"]
ServerToolLists == {<<SearchTool>>, <<SearchTool, TradesTool>>}

ConvertTool(tool) ==
    [name |-> tool.name,
     description |-> IF tool.description \in {NoDescription, ""} THEN "" ELSE tool.description,
     input_schema |-> tool.inputSchema]

ConvertTools(tools) == [k \in DOMAIN tools |-> ConvertTool(tools[k])]

(* Content blocks of a model response.  A tool_use block's id is opaque    *)
(* and unique in its response; here it is made from the block's place.     *)
(* A response is: no block, one or two text blocks, tool_use blocks, or a  *)
(* text block and a tool_use block.                                        *)
TextBlock(t) == [type |-> "text", text |-> t]
ToolUseBlock(p) == [type |-> "tool_use", id |-> 100 + p, name |-> "search_markets", input |-> p]

Leads(texts) == {<<>>} \cup {<<TextBlock(t)>> : t \in texts}

FinalContents(texts) ==
    Leads(texts) \cup {<<TextBlock(t), TextBlock(<<"b">>)>> : t \in texts}

ToolContents(texts) ==
    { [j \in 1..k |-> ToolUseBlock(j)] : k \in 1..MaxBlocks }
        \cup { <<TextBlock(t), ToolUseBlock(2)>> : t \in texts }

StopReasons == {"tool_use", "end_turn"}

FinalResponses(texts) == [stop_reason : StopReasons, content : FinalContents(texts)]

Responses(texts) ==
    [stop_reason : StopReasons, content : FinalContents(texts) \cup ToolContents(texts)]

NoResponse == [stop_reason |-> "none", content |-> <<>>]

(* Answer texts: strings as sequences of characters. *)
Alphabet == {"a", "b", " "}
Texts == UNION {[1..n -> Alphabet] : n \in 0..MaxTextLen}
SampleTexts == {<<"a", " ", "b">>}

UserTexts == {"odds?"}
UserEntry(u) == [role |-> "user", content |-> u]
Histories == UNION {[1..n -> {UserEntry("hello")}] : n \in 0..MaxHistory}

(* What is handed to ws.send. *)
Chunk(t) == [kind |-> "chunk", text |-> t]
ErrorChunk(e) == [kind |-> "error", text |-> <<"Error: ">> \o ErrorTextOf(e)]
EndMarker == [kind |-> "end", text |-> <<"[END]">>]

---------------------------------------------------------------------------
(* Pure functions of processMessageWithClaude *)

IsToolUse(b) == b.type = "tool_use"
IsText(b) == b.type = "text"

(* response.content.filter(block => block.type === "tool_use"), index.ts:281 *)
ToolUseBlocks(r) == SelectSeq(r.content, IsToolUse)

(* response.content.find(block => block.type === "text"), index.ts:353 *)
HasText(r) == \E k \in DOMAIN r.content : IsText(r.content[k])
FirstText(r) ==
    LET k == CHOOSE k \in DOMAIN r.content :
                 /\ IsText(r.content[k])
                 /\ \A m \in 1..(k - 1) : ~IsText(r.content[m])
    IN r.content[k].text

(* fullText.split(" "), index.ts:361 *)
RECURSIVE Split(_)
Split(s) ==
    IF \A k \in DOMAIN s : s[k] # " "
    THEN <<s>>
    ELSE LET k == CHOOSE k \in DOMAIN s : s[k] = " " /\ \A m \in 1..(k - 1) : s[m] # " "
         IN <<SubSeq(s, 1, k - 1)>> \o Split(SubSeq(s, k + 1, Len(s)))

(* the separator is not put back *)
WordChunk_NoSpace(words, i) == words[i]

(* i === words.length - 1 ? words[i] : words[i] + " ", index.ts:363 (i from 1 here) *)
WordChunk(words, i) == IF i = Len(words) THEN words[i] ELSE words[i] \o <<" ">>

Words(r) == Split(FirstText(r))

(* the tool_result entry of one invocation, index.ts:312-316 *)
ResultContent(name, input) == <<"content", name, input>>
Stringify(content) == <<"json">> \o content
(* every result carries the id of the response's first block *)
ToolResult_FirstId(toolUse, content) ==
    [type |-> "tool_result", tool_use_id |-> 101, content |-> Stringify(content)]

ToolResult(toolUse, content) ==
    [type |-> "tool_result", tool_use_id |-> toolUse.id, content |-> Stringify(content)]

(* the message list built at index.ts:247-256 *)
UserMessage(u) == [role |-> "user", content |-> <<[type |-> "string", value |-> u]>>]
HistoryMessage(m) == [role |-> m.role, content |-> <<[type |-> "string", value |-> m.content]>>]
InitialMessages(conversationHistory, u) ==
    [k \in DOMAIN conversationHistory |-> HistoryMessage(conversationHistory[k])]
        \o <<UserMessage(u)>>

---------------------------------------------------------------------------
(* The MCP SDK's Client, as the backend sees it.  A Client is "connecting" *)
(* from its connect() call until that call settles, "connected" after it   *)
(* resolved, and "closed" after close() or after connect() rejected (the   *)
(* SDK disconnects a client whose initialization failed).  close() rejects *)
(* the requests pending on the client; a request made on a closed client   *)
(* rejects at once with "Not connected".                                   *)

Live(cs, c) == c # NULL /\ cs[c] # "closed"

(* How a pending callTool can settle.  On a client closed meanwhile, it    *)
(* settles with the close's rejection, or with the provider's expiry       *)
(* answer when that had arrived before the close.                          *)
CallToolOutcomes(status) ==
    CASE status = "connected" -> {"ok", "expired", "error"}
      [] status = "connecting" -> {"ok", "error"}
      [] OTHER -> {"closed", "expired"}

ConnectOutcomes(status) ==
    IF status = "connecting" THEN {"ok", "fail", "unauthorized"} ELSE {"closed"}

ListOutcomes(status) ==
    IF status = "closed" THEN {"closed"} ELSE {"ok", "fail"}

UnauthorizedError == Err(<<"Unauthorized">>)
ListError == Err(<<"MCP error -32603: Internal error">>)

OutcomeError(o) ==
    CASE o = "expired" -> ExpiredError
      [] o = "error" -> ToolError
      [] o = "closed" -> ClosedError
      [] o = "fail" -> ConnectError
      [] o = "unauthorized" -> UnauthorizedError
      [] OTHER -> NotConnectedError

---------------------------------------------------------------------------
(* One async callback of toolUseBlocks.map (index.ts:295-335), and the     *)
(* steps of reconnectMCPSession and initializeTools it runs.               *)

NoResult == [type |-> "none"]

NewInvocation(toolUse) ==
    [pc |-> "start", cl |-> NULL, retries |-> 0, toolUse |-> toolUse,
     result |-> NoResult, err |-> NoError,
     attempts |-> 0, recon |-> 0, outs |-> <<>>]

Thrown(r, e) == [r EXCEPT !.pc = "threw", !.err = e]

(* every failure is taken for a session expiry *)
ShouldReconnect_AnyError(e, retries) == retries < maxRetries - 1

(* the attempt count is not looked at before reconnecting *)
ShouldReconnect_NoCeiling(e, retries) == Includes(ErrorMessageOf(e), SessionExpiredText)

(* index.ts:321: reconnect and retry, or rethrow *)
ShouldReconnect(e, retries) ==
    /\ Includes(ErrorMessageOf(e), SessionExpiredText)
    /\ retries < maxRetries - 1

(* index.ts:303-308: the loop test and mcpClient!.callTool(...) on the     *)
(* client that is current now; a rejection at once is not an expiry and is *)
(* rethrown by line 329.                                                   *)
IssueCallTool(r, cs, mc) ==
    IF r.retries < maxRetries
    THEN IF Live(cs, mc)
         THEN [r EXCEPT !.pc = "callTool", !.cl = mc, !.attempts = @ + 1]
         ELSE Thrown([r EXCEPT !.attempts = @ + 1, !.outs = Append(@, "rejected")],
                     NotConnectedError)
    ELSE Thrown(r, Err(<<"Failed to call tool">>))

(* initializeTools, index.ts:160-169, 149-158, 127-133: each listing is    *)
(* called on the client that is current at that moment; a failure of       *)
(* listPrompts or listResources is caught (index.ts:156-158, 167-169) and  *)
(* the function goes on.  The start-up task and the callback task keep, in *)
(* optFailed, which of the two failed; the code keeps nothing of it.       *)
CaughtListing(r, listing, o) ==
    IF o # "ok" /\ "optFailed" \in DOMAIN r
    THEN [r EXCEPT !.optFailed = @ \cup {listing}]
    ELSE r

AfterListResources(r) == [r EXCEPT !.pc = "initDone"]

AfterListPrompts(r, cs, mc) ==
    IF Live(cs, mc) THEN [r EXCEPT !.pc = "listResources", !.cl = mc]
    ELSE AfterListResources(CaughtListing(r, "resources", "closed"))

AfterListTools(r, cs, mc) ==
    IF Live(cs, mc) THEN [r EXCEPT !.pc = "listPrompts", !.cl = mc]
    ELSE AfterListPrompts(CaughtListing(r, "prompts", "closed"), cs, mc)

(* a failed prompts listing is rethrown instead of being logged *)
ListPromptsSettled_Fatal(r, o, cs, mc) ==
    IF o = "ok" THEN AfterListPrompts(r, cs, mc)
    ELSE Thrown(CaughtListing(r, "prompts", o), Err(<<"listPrompts failed">>))

(* index.ts:150-161 (and 94-105): listPrompts has settled with outcome o *)
ListPromptsSettled(r, o, cs, mc) == AfterListPrompts(CaughtListing(r, "prompts", o), cs, mc)

(* index.ts:161-170 (and 105-113): listResources has settled with outcome o *)
ListResourcesSettled(r, o) == AfterListResources(CaughtListing(r, "resources", o))

InitializeToolsStart(r, cs, mc) ==
    IF mc = NULL THEN Thrown(r, NoClientError)
    ELSE IF Live(cs, mc) THEN [r EXCEPT !.pc = "listTools", !.cl = mc]
    ELSE Thrown(r, NotConnectedError)

(* index.ts:323-325: after reconnectMCPSession returned: retries++, continue *)
InvContinue(r, cs, mc) ==
    IF r.pc = "initDone"
    THEN IssueCallTool([r EXCEPT !.retries = @ + 1], cs, mc)
    ELSE r

(* index.ts:338-349: Promise.all resolved: one user message with all the   *)
(* results, in the order of the blocks, and the follow-up model request.   *)
ToolResultsMessage(inv2) ==
    [role |-> "user", content |-> [j \in DOMAIN inv2 |-> inv2[j].result]]

(* the follow-up request is made before the results are in the list *)
FollowUpRequest_WithoutResults(msgs, tools) ==
    [system |-> FALSE, messages |-> SubSeq(msgs, 1, Len(msgs) - 1), tools |-> tools]

FollowUpRequest(msgs, tools) == [system |-> FALSE, messages |-> msgs, tools |-> tools]

(* index.ts:258-276 *)
FirstRequest(msgs, tools) == [system |-> TRUE, messages |-> msgs, tools |-> tools]

(* the catch sends the terminator twice *)
CatchSends_EndTwice(e) == <<ErrorChunk(e), EndMarker, EndMarker>>

(* the catch forgets the terminator *)
CatchSends_NoEnd(e) == <<ErrorChunk(e)>>

(* index.ts:371-375 *)
CatchSends(e) == <<ErrorChunk(e), EndMarker>>

(* What the turn does when invocation i has moved (inv2 is the new inv):   *)
(* Promise.all rejects with the first rejection and the catch of line 371  *)
(* runs; or it resolves once every callback has returned.  The callbacks   *)
(* of a turn that has ended keep running; nothing awaits them.             *)
Settle(inv2, i) ==
    IF tpc = "tools" /\ inv2[i].pc = "threw"
    THEN /\ sent' = sent \o CatchSends(inv2[i].err)
         /\ tpc' = "done"
         /\ errAt' = "tools"
         /\ UNCHANGED <<outerVars, history, messages, request, response, round, calls, wi>>
    ELSE IF tpc = "tools" /\ \A j \in DOMAIN inv2 : inv2[j].pc = "returned"
    THEN /\ messages' = Append(messages, ToolResultsMessage(inv2))
         /\ request' = FollowUpRequest(messages', availableTools)
         /\ tpc' = "model"
         /\ UNCHANGED <<outerVars, history, response, round, calls, wi, sent, errAt>>
    ELSE UNCHANGED turnVars

(* the new client is connected before it is stored in the global *)
CreateClient_KeepsHandle(i, r) ==
    /\ clients' = Append(clients, "connecting")
    /\ inv' = [inv EXCEPT ![i] = [r EXCEPT !.pc = "connect", !.cl = Len(clients) + 1]]
    /\ UNCHANGED <<mcpClient, mcpTransport, oauthProvider, availableTools>>

(* reconnectMCPSession up to its first await, index.ts:191-197, or, with   *)
(* no client to close, up to line 221.                                     *)
CreateClient(i, r) ==
    IF oauthProvider = "null"
    THEN /\ inv' = [inv EXCEPT ![i] = Thrown(r, NoProviderError)]
         /\ UNCHANGED sessionVars
    ELSE /\ clients' = Append(clients, "connecting")
         /\ mcpClient' = Len(clients) + 1
         /\ mcpTransport' = Len(clients) + 1
         /\ inv' = [inv EXCEPT ![i] = [r EXCEPT !.pc = "connect", !.cl = Len(clients) + 1]]
         /\ UNCHANGED <<oauthProvider, availableTools>>

(* the client in use is left open and simply replaced *)
ReconnectStart_NoClose(i, r) == CreateClient(i, [r EXCEPT !.recon = @ + 1])

ReconnectStart(i, r) ==
    IF mcpClient # NULL
    THEN /\ clients' = [clients EXCEPT ![mcpClient] = "closed"]
         /\ inv' = [inv EXCEPT ![i] = [r EXCEPT !.pc = "close", !.cl = mcpClient,
                                                !.recon = @ + 1]]
         /\ UNCHANGED <<mcpClient, mcpTransport, oauthProvider, availableTools>>
    ELSE CreateClient(i, [r EXCEPT !.recon = @ + 1])

(* the retry is made without reconnecting *)
CatchCallTool_NoReconnect(i, r, e) ==
    /\ inv' = [inv EXCEPT ![i] =
           IF ShouldReconnect(e, r.retries)
           THEN IssueCallTool([r EXCEPT !.retries = @ + 1], clients, mcpClient)
           ELSE Thrown(r, e)]
    /\ UNCHANGED sessionVars

(* the catch of index.ts:317-330 *)
CatchCallTool(i, r, e) ==
    IF ShouldReconnect(e, r.retries)
    THEN ReconnectStart(i, r)
    ELSE /\ inv' = [inv EXCEPT ![i] = Thrown(r, e)]
         /\ UNCHANGED sessionVars

(* A callTool settles: index.ts:305-330. *)
CallToolDone(i, o) ==
    /\ inv[i].pc = "callTool"
    /\ o \in CallToolOutcomes(clients[inv[i].cl])
    /\ LET r == [inv[i] EXCEPT !.outs = Append(@, o)]
       IN IF o = "ok"
          THEN /\ inv' = [inv EXCEPT ![i] =
                     [r EXCEPT !.pc = "returned",
                               !.result = ToolResult(r.toolUse,
                                   ResultContent(r.toolUse.name, r.toolUse.input))]]
               /\ UNCHANGED sessionVars
          ELSE CatchCallTool(i, r, OutcomeError(o))
    /\ Settle(inv', i)
    /\ UNCHANGED <<st, cb>>

(* await mcpClient.close() returns: index.ts:199-221. *)
CloseDone(i) ==
    /\ inv[i].pc = "close"
    /\ CreateClient(i, inv[i])
    /\ Settle(inv', i)
    /\ UNCHANGED <<st, cb>>

(* await mcpClient.connect(mcpTransport) settles: index.ts:221-224, 127-133. *)
ConnectDone(i, o) ==
    /\ inv[i].pc = "connect"
    /\ o \in ConnectOutcomes(clients[inv[i].cl])
    /\ IF o = "ok"
       THEN /\ clients' = [clients EXCEPT ![inv[i].cl] = "connected"]
            /\ inv' = [inv EXCEPT ![i] = InitializeToolsStart(inv[i], clients', mcpClient)]
            /\ UNCHANGED oauthProvider
       ELSE /\ clients' = [clients EXCEPT ![inv[i].cl] = "closed"]
            /\ inv' = [inv EXCEPT ![i] = Thrown(inv[i], OutcomeError(o))]
            /\ oauthProvider' = IF o = "unauthorized" THEN "pending" ELSE oauthProvider
    /\ UNCHANGED <<mcpClient, mcpTransport, availableTools>>
    /\ Settle(inv', i)
    /\ UNCHANGED <<st, cb>>

(* the listed tools are added to the catalog instead of replacing it *)
ListToolsDone_Patch(i, o, tools) ==
    /\ inv[i].pc = "listTools"
    /\ o \in ListOutcomes(clients[inv[i].cl])
    /\ IF o = "ok"
       THEN /\ availableTools' = availableTools \o ConvertTools(tools)
            /\ inv' = [inv EXCEPT ![i] =
                          InvContinue(AfterListTools(inv[i], clients, mcpClient),
                                      clients, mcpClient)]
       ELSE /\ inv' = [inv EXCEPT ![i] = Thrown(inv[i],
                          IF o = "closed" THEN ClosedError ELSE ListError)]
            /\ UNCHANGED availableTools
    /\ UNCHANGED <<clients, mcpClient, mcpTransport, oauthProvider>>
    /\ Settle(inv', i)
    /\ UNCHANGED <<st, cb>>

(* await mcpClient.listTools() settles: index.ts:133-151. *)
ListToolsDone(i, o, tools) ==
    /\ inv[i].pc = "listTools"
    /\ o \in ListOutcomes(clients[inv[i].cl])
    /\ IF o = "ok"
       THEN /\ availableTools' = ConvertTools(tools)
            /\ inv' = [inv EXCEPT ![i] =
                          InvContinue(AfterListTools(inv[i], clients, mcpClient),
                                      clients, mcpClient)]
       ELSE /\ inv' = [inv EXCEPT ![i] = Thrown(inv[i],
                          IF o = "closed" THEN ClosedError ELSE ListError)]
            /\ UNCHANGED availableTools
    /\ UNCHANGED <<clients, mcpClient, mcpTransport, oauthProvider>>
    /\ Settle(inv', i)
    /\ UNCHANGED <<st, cb>>

(* await mcpClient.listPrompts() settles: index.ts:151-162. *)
ListPromptsDone(i, o) ==
    /\ inv[i].pc = "listPrompts"
    /\ o \in ListOutcomes(clients[inv[i].cl])
    /\ inv' = [inv EXCEPT ![i] =
                  InvContinue(ListPromptsSettled(inv[i], o, clients, mcpClient),
                              clients, mcpClient)]
    /\ UNCHANGED sessionVars
    /\ Settle(inv', i)
    /\ UNCHANGED <<st, cb>>

(* await mcpClient.listResources() settles: index.ts:162-170, then         *)
(* reconnectMCPSession returns (index.ts:224-226, 323-325).                *)
ListResourcesDone(i, o) ==
    /\ inv[i].pc = "listResources"
    /\ o \in ListOutcomes(clients[inv[i].cl])
    /\ inv' = [inv EXCEPT ![i] =
                  InvContinue(ListResourcesSettled(inv[i], o), clients, mcpClient)]
    /\ UNCHANGED sessionVars
    /\ Settle(inv', i)
    /\ UNCHANGED <<st, cb>>

---------------------------------------------------------------------------
(* processMessageWithClaude and the message handler that calls it *)

(* ws.on("message"), index.ts:493-503, and index.ts:247-276 up to the      *)
(* first await.                                                            *)
ReceiveMessage(u) ==
    /\ tpc = "idle"
    /\ history' = Append(history, UserEntry(u))
    /\ messages' = InitialMessages(SubSeq(history', 1, Len(history') - 1), u)
    /\ request' = FirstRequest(messages', availableTools)
    /\ tpc' = "model"
    /\ UNCHANGED <<outerVars, response, round, calls, wi, sent, errAt, inv, st, cb>>
    /\ UNCHANGED sessionVars

(* anthropic.messages.create rejects: the catch of index.ts:371-375. *)
ModelFail ==
    /\ tpc = "model"
    /\ sent' = sent \o CatchSends(ModelError)
    /\ tpc' = "done"
    /\ errAt' = "model"
    /\ UNCHANGED <<outerVars, history, messages, request, response, round, calls, wi, inv, st, cb>>
    /\ UNCHANGED sessionVars

(* index.ts:288-336 up to the await of Promise.all: the assistant message  *)
(* is pushed and every callback runs up to its first await, in the order   *)
(* of the blocks.                                                          *)
DispatchTools(r) ==
    LET blocks == ToolUseBlocks(r)
        inv2 == [j \in 1..Len(blocks) |->
                    IssueCallTool(NewInvocation(blocks[j]), clients, mcpClient)]
        failed == {j \in DOMAIN inv2 : inv2[j].pc = "threw"}
    IN /\ calls + Len(blocks) <= MaxToolCalls
       /\ messages' = Append(messages, [role |-> "assistant", content |-> r.content])
       /\ inv' = inv2
       /\ round' = round + 1
       /\ calls' = calls + Len(blocks)
       /\ IF failed # {}
          THEN /\ sent' = sent \o CatchSends(
                      inv2[CHOOSE j \in failed : \A m \in failed : j <= m].err)
               /\ tpc' = "done"
               /\ errAt' = "tools"
          ELSE /\ tpc' = "tools"
               /\ UNCHANGED <<sent, errAt>>
       /\ UNCHANGED wi

(* index.ts:352-370 up to the first await of the streaming loop. *)
StartStreaming(r) ==
    /\ IF HasText(r)
       THEN /\ sent' = Append(sent, Chunk(WordChunk(Words(r), 1)))
            /\ wi' = 1
            /\ tpc' = "stream"
       ELSE /\ sent' = Append(sent, EndMarker)
            /\ tpc' = "done"
            /\ UNCHANGED wi
    /\ UNCHANGED <<messages, round, calls, errAt, inv>>

(* the loop goes on for every response whose stop reason is tool_use *)
ContinuesLoop_StopReasonOnly(r) == r.stop_reason = "tool_use"

(* the loop test of index.ts:279 and the break of line 285 *)
ContinuesLoop(r) == r.stop_reason = "tool_use" /\ Len(ToolUseBlocks(r)) # 0

(* anthropic.messages.create resolves with r: index.ts:276-294 or 349-364. *)
ModelRespond(r) ==
    /\ tpc = "model"
    /\ response' = r
    /\ IF ContinuesLoop(r) THEN DispatchTools(r) ELSE StartStreaming(r)
    /\ UNCHANGED <<outerVars, history, request, st, cb>>
    /\ UNCHANGED sessionVars

(* the 10 ms timer of index.ts:366 fires: the next word, or "[END]". *)
StreamTick ==
    /\ tpc = "stream"
    /\ IF wi < Len(Words(response))
       THEN /\ sent' = Append(sent, Chunk(WordChunk(Words(response), wi + 1)))
            /\ wi' = wi + 1
            /\ UNCHANGED tpc
       ELSE /\ sent' = Append(sent, EndMarker)
            /\ tpc' = "done"
            /\ UNCHANGED wi
    /\ UNCHANGED <<outerVars, history, messages, request, response, round, calls, errAt, inv, st, cb>>
    /\ UNCHANGED sessionVars

---------------------------------------------------------------------------
(* Spec: one client connection sends one message to a backend whose        *)
(* start-up has connected the session.                                     *)

IdleStartup ==
    [pc |-> "idle", cl |-> NULL, err |-> NoError, at |-> "none", optFailed |-> {},
     exitStatus |-> "running"]
IdleCallback ==
    [pc |-> "idle", cl |-> NULL, err |-> NoError, code |-> "none", status |-> 0, n |-> 0,
     optFailed |-> {}]

(* index.ts:484-487: no connection yet, an empty Map *)
EmptyMap == [ws \in {} |-> <<>>]
NoConnection ==
    /\ sockets = <<>>
    /\ conversationHistories = EmptyMap
    /\ turns = <<>>
    /\ wsSent = <<>>

(* part_001:291-300: the server is created and handles no call *)
IdleServer ==
    [pc |-> "idle", tool |-> "none", params |-> [limit |-> 0, slug |-> "none", include_trades |-> FALSE],
     requests |-> <<>>, outcomes |-> <<>>, sections |-> <<>>, divisors |-> <<>>,
     result |-> [isError |-> FALSE, content |-> <<>>], err |-> NoError]

TurnInit ==
    /\ srv = IdleServer
    /\ NoConnection
    /\ messages = <<>>
    /\ request = FirstRequest(<<>>, <<>>)
    /\ response = NoResponse
    /\ tpc = "idle"
    /\ round = 0
    /\ calls = 0
    /\ wi = 0
    /\ inv = <<>>
    /\ sent = <<>>
    /\ errAt = "none"

Init ==
    /\ clients = <<"connected">>
    /\ mcpClient = 1
    /\ mcpTransport = 1
    /\ oauthProvider = "idle"
    /\ availableTools = ConvertTools(<<SearchTool>>)
    /\ history = <<UserEntry("hello")>>
    /\ TurnInit
    /\ st = [IdleStartup EXCEPT !.pc = "ready"]
    /\ cb = IdleCallback

(* the steps of the callbacks, whichever callback takes them *)
CallToolSettles ==
    \E i \in DOMAIN inv : \E o \in {"ok", "expired", "error", "closed"} : CallToolDone(i, o)
CloseReturns == \E i \in DOMAIN inv : CloseDone(i)
ConnectSettles ==
    \E i \in DOMAIN inv : \E o \in {"ok", "fail", "unauthorized", "closed"} : ConnectDone(i, o)
ListToolsSettles ==
    \E i \in DOMAIN inv : \E o \in {"ok", "fail", "closed"} :
        \E l \in ServerToolLists : ListToolsDone(i, o, l)
ListingOutcomes == {"ok", "fail", "closed"}

ListPromptsSettles == \E i \in DOMAIN inv : \E o \in ListingOutcomes : ListPromptsDone(i, o)
ListResourcesSettles == \E i \in DOMAIN inv : \E o \in ListingOutcomes : ListResourcesDone(i, o)

ModelResponds == \E r \in Responses(SampleTexts) : ModelRespond(r)
MessageArrives == \E u \in UserTexts : ReceiveMessage(u)

Next ==
    \/ MessageArrives
    \/ ModelFail
    \/ ModelResponds
    \/ StreamTick
    \/ CallToolSettles
    \/ CloseReturns
    \/ ConnectSettles
    \/ ListToolsSettles
    \/ ListPromptsSettles
    \/ ListResourcesSettles

Spec == Init /\ [][Next]_vars

(* Every awaited call settles: the model request, the pacing timer, and    *)
(* each request made on an MCP client.  No fairness on message arrival.    *)
FairSpec ==
    /\ Spec
    /\ WF_vars(ModelFail \/ ModelResponds)
    /\ WF_vars(StreamTick)
    /\ WF_vars(CallToolSettles \/ CloseReturns \/ ConnectSettles \/ ListToolsSettles
                   \/ ListPromptsSettles \/ ListResourcesSettles)

---------------------------------------------------------------------------
(* SpecStream: the same turn, for the model responses that request no tool *)
(* call, over every answer text of the bound.                              *)

StreamInit ==
    /\ clients = <<"connected">>
    /\ mcpClient = 1
    /\ mcpTransport = 1
    /\ oauthProvider = "idle"
    /\ availableTools = ConvertTools(<<SearchTool>>)
    /\ history \in Histories
    /\ TurnInit
    /\ st = [IdleStartup EXCEPT !.pc = "ready"]
    /\ cb = IdleCallback

FinalAnswerArrives == \E r \in FinalResponses(Texts) : ModelRespond(r)

StreamNext ==
    \/ MessageArrives
    \/ ModelFail
    \/ FinalAnswerArrives
    \/ StreamTick

SpecStream == StreamInit /\ [][StreamNext]_vars

---------------------------------------------------------------------------
(* SpecAuth: start-up and the OAuth callback.                              *)

(* SimpleOAuthProvider.clearPendingAuth (oauth-provider.js) *)
ClearPendingAuth(provider) == "idle"

(* startup(), index.ts:530-541, after initializeMCPClient returned *)
StartupBranch(mc, tools) ==
    IF mc # NULL /\ Len(tools) > 0 THEN "ready" ELSE "waitingAuth"

(* index.ts:122-123 and 542-545: the error is rethrown and the process exits *)
StartupExit(e) == [st EXCEPT !.pc = "exited", !.err = e, !.exitStatus = "1"]

(* an authorization-required error is rethrown like any other *)
StartupUnauthorized_Exits(at) == [StartupExit(UnauthorizedError) EXCEPT !.at = at]

(* index.ts:115-121: an UnauthorizedError raised anywhere in the try block *)
(* is logged and initializeMCPClient returns.                              *)
StartupUnauthorized(at) ==
    [st EXCEPT !.pc = StartupBranch(mcpClient, availableTools),
               !.err = UnauthorizedError, !.at = at]

StartupReturn(r, mc, tools) ==
    IF r.pc = "initDone" THEN [r EXCEPT !.pc = StartupBranch(mc, tools)] ELSE r

(* await oauthProvider.loadSavedTokens() returns: index.ts:55-73 *)
StLoadTokensDone ==
    /\ st.pc = "loadTokens"
    /\ clients' = Append(clients, "connecting")
    /\ mcpTransport' = Len(clients) + 1
    /\ mcpClient' = Len(clients) + 1
    /\ st' = [st EXCEPT !.pc = "connect", !.cl = Len(clients) + 1]
    /\ UNCHANGED <<oauthProvider, availableTools, inv, cb>>
    /\ UNCHANGED turnVars

(* await mcpClient.connect(mcpTransport) settles: index.ts:73-77, 115-124 *)
StConnectDone(o) ==
    /\ st.pc = "connect"
    /\ o \in ConnectOutcomes(clients[st.cl])
    /\ IF o = "ok"
       THEN /\ clients' = [clients EXCEPT ![st.cl] = "connected"]
            /\ st' = [st EXCEPT !.pc = "listTools", !.cl = mcpClient]
            /\ UNCHANGED oauthProvider
       ELSE IF o = "unauthorized"
       THEN /\ clients' = [clients EXCEPT ![st.cl] = "closed"]
            /\ oauthProvider' = "pending"
            /\ st' = StartupUnauthorized("connect")
       ELSE /\ clients' = [clients EXCEPT ![st.cl] = "closed"]
            /\ st' = StartupExit(OutcomeError(o))
            /\ UNCHANGED oauthProvider
    /\ UNCHANGED <<mcpClient, mcpTransport, availableTools, inv, cb>>
    /\ UNCHANGED turnVars

(* await mcpClient.listTools() settles: index.ts:77-95 *)
StListToolsDone(o, tools) ==
    /\ st.pc = "listTools"
    /\ o \in ListOutcomes(clients[st.cl]) \cup {"unauthorized"}
    /\ IF o = "ok"
       THEN /\ availableTools' = ConvertTools(tools)
            /\ st' = StartupReturn(AfterListTools(st, clients, mcpClient),
                                   mcpClient, availableTools')
            /\ UNCHANGED oauthProvider
       ELSE IF o = "unauthorized"
       THEN /\ oauthProvider' = "pending"
            /\ st' = StartupUnauthorized("listTools")
            /\ UNCHANGED availableTools
       ELSE /\ UNCHANGED oauthProvider
            /\ st' = StartupExit(IF o = "closed" THEN ClosedError ELSE ListError)
            /\ UNCHANGED availableTools
    /\ UNCHANGED <<clients, mcpClient, mcpTransport, inv, cb>>
    /\ UNCHANGED turnVars

(* await mcpClient.listPrompts() settles: index.ts:95-106 *)
StListPromptsDone(o) ==
    /\ st.pc = "listPrompts"
    /\ o \in ListOutcomes(clients[st.cl])
    /\ st' = StartupReturn(ListPromptsSettled(st, o, clients, mcpClient),
                           mcpClient, availableTools)
    /\ UNCHANGED <<inv, cb>>
    /\ UNCHANGED sessionVars
    /\ UNCHANGED turnVars

(* await mcpClient.listResources() settles: index.ts:106-113, and          *)
(* startup() goes on, index.ts:530-541.                                    *)
StListResourcesDone(o) ==
    /\ st.pc = "listResources"
    /\ o \in ListOutcomes(clients[st.cl])
    /\ st' = StartupReturn(ListResourcesSettled(st, o), mcpClient, availableTools)
    /\ UNCHANGED <<inv, cb>>
    /\ UNCHANGED sessionVars
    /\ UNCHANGED turnVars

(* The response of the callback handler: index.ts:394, 415, 436, 455. *)
Respond(r, status) == [r EXCEPT !.pc = "done", !.status = status]

(* the handler answers 200 although reconnectAfterAuth has thrown *)
CallbackReturn_HidesFailure(r) ==
    IF r.pc \in {"initDone", "threw"} THEN Respond(r, 200) ELSE r

CallbackReturn(r) ==
    IF r.pc = "initDone" THEN Respond(r, 200)
    ELSE IF r.pc = "threw" THEN Respond(r, 500)
    ELSE r

(* the code parameter is not examined: every request runs reconnectAfterAuth *)
CallbackRequest_CodeNotExamined(code, error) ==
    /\ st.pc # "exited"
    /\ cb.pc \in {"idle", "done"}
    /\ cb.n < MaxCallbacks
    /\ code = "valid" => oauthProvider = "pending"
    /\ LET r == [cb EXCEPT !.n = @ + 1, !.code = code, !.err = NoError, !.status = 0,
                           !.optFailed = {}]
       IN cb' = IF mcpTransport = NULL \/ oauthProvider = "null"
                THEN Respond(Thrown(r, NoProviderError), 500)
                ELSE [r EXCEPT !.pc = "finishAuth", !.cl = mcpTransport]
    /\ UNCHANGED <<inv, st>>
    /\ UNCHANGED sessionVars
    /\ UNCHANGED turnVars

(* GET /oauth/callback: index.ts:387-393, 172-179, 435-456.  A code the    *)
(* authorization server accepts exists only while an authorization is      *)
(* pending.                                                                *)
CallbackRequest(code, error) ==
    /\ st.pc # "exited"
    /\ cb.pc \in {"idle", "done"}
    /\ cb.n < MaxCallbacks
    /\ code = "valid" => oauthProvider = "pending"
    /\ LET r == [cb EXCEPT !.n = @ + 1, !.code = code, !.err = NoError, !.status = 0,
                           !.optFailed = {}]
       IN cb' = IF code # "none"
                THEN IF mcpTransport = NULL \/ oauthProvider = "null"
                     THEN Respond(Thrown(r, NoProviderError), 500)
                     ELSE [r EXCEPT !.pc = "finishAuth", !.cl = mcpTransport]
                ELSE Respond(r, 400)
    /\ UNCHANGED <<inv, st>>
    /\ UNCHANGED sessionVars
    /\ UNCHANGED turnVars

(* await mcpTransport.finishAuth(authCode), index.ts:179: the authorization *)
(* server accepts the code or rejects it.                                  *)
InvalidGrantError == Err(<<"invalid_grant">>)
FinishAuthOutcome(code) == IF code = "valid" THEN "ok" ELSE "fail"

(* the marker is cleared whatever finishAuth answered *)
ProviderAfterFinishAuth_Regardless(provider, o) == ClearPendingAuth(provider)

(* index.ts:179-180: clearPendingAuth() runs when the await has resolved *)
ProviderAfterFinishAuth(provider, o) ==
    IF o = "ok" THEN ClearPendingAuth(provider) ELSE provider

(* index.ts:179-185: a rejection leaves reconnectAfterAuth, else initializeTools() *)
FinishAuthSettled(r, o, cs, mc) ==
    IF o = "ok" THEN InitializeToolsStart(r, cs, mc) ELSE Thrown(r, InvalidGrantError)

(* await mcpTransport.finishAuth(authCode) settles: index.ts:179-185, 127-133 *)
CbFinishAuthDone ==
    /\ st.pc # "exited"
    /\ cb.pc = "finishAuth"
    /\ oauthProvider' = ProviderAfterFinishAuth(oauthProvider, FinishAuthOutcome(cb.code))
    /\ cb' = CallbackReturn(FinishAuthSettled(cb, FinishAuthOutcome(cb.code),
                                              clients, mcpClient))
    /\ UNCHANGED <<clients, mcpClient, mcpTransport, availableTools, inv, st>>
    /\ UNCHANGED turnVars

(* await mcpClient.listTools() settles: index.ts:133-151 *)
CbListToolsDone(o, tools) ==
    /\ st.pc # "exited"
    /\ cb.pc = "listTools"
    /\ o \in ListOutcomes(clients[cb.cl])
    /\ IF o = "ok"
       THEN /\ availableTools' = ConvertTools(tools)
            /\ cb' = CallbackReturn(AfterListTools(cb, clients, mcpClient))
       ELSE /\ cb' = Respond(Thrown(cb, IF o = "closed" THEN ClosedError ELSE ListError), 500)
            /\ UNCHANGED availableTools
    /\ UNCHANGED <<clients, mcpClient, mcpTransport, oauthProvider, inv, st>>
    /\ UNCHANGED turnVars

(* await mcpClient.listPrompts() settles: index.ts:151-162 *)
CbListPromptsDone(o) ==
    /\ st.pc # "exited"
    /\ cb.pc = "listPrompts"
    /\ o \in ListOutcomes(clients[cb.cl])
    /\ cb' = CallbackReturn(ListPromptsSettled(cb, o, clients, mcpClient))
    /\ UNCHANGED <<inv, st>>
    /\ UNCHANGED sessionVars
    /\ UNCHANGED turnVars

(* await mcpClient.listResources() settles: index.ts:162-170, 185-189, 394 *)
CbListResourcesDone(o) ==
    /\ st.pc # "exited"
    /\ cb.pc = "listResources"
    /\ o \in ListOutcomes(clients[cb.cl])
    /\ cb' = CallbackReturn(ListResourcesSettled(cb, o))
    /\ UNCHANGED <<inv, st>>
    /\ UNCHANGED sessionVars
    /\ UNCHANGED turnVars

(* GET /health, index.ts:460-466 *)
Health ==
    [status |-> "ok", mcpConnected |-> mcpClient # NULL, toolsAvailable |-> Len(availableTools)]

(* The state when the module has been loaded: startup() has run up to the  *)
(* await of index.ts:55.                                                   *)
AuthInit ==
    /\ clients = <<>>
    /\ mcpClient = NULL
    /\ mcpTransport = NULL
    /\ oauthProvider = "idle"
    /\ availableTools = <<>>
    /\ history = <<>>
    /\ TurnInit
    /\ st = [IdleStartup EXCEPT !.pc = "loadTokens"]
    /\ cb = IdleCallback

StConnectSettles == \E o \in {"ok", "fail", "unauthorized"} : StConnectDone(o)
StListToolsSettles == \E o \in {"ok", "fail", "unauthorized"} : \E l \in ServerToolLists : StListToolsDone(o, l)
CallbackArrives ==
    \E code \in {"none", "valid", "invalid"} : \E error \in BOOLEAN : CallbackRequest(code, error)
CbListToolsSettles ==
    \E o \in {"ok", "fail", "closed"} : \E l \in ServerToolLists : CbListToolsDone(o, l)

StListPromptsSettles == \E o \in ListingOutcomes : StListPromptsDone(o)
StListResourcesSettles == \E o \in ListingOutcomes : StListResourcesDone(o)
CbListPromptsSettles == \E o \in ListingOutcomes : CbListPromptsDone(o)
CbListResourcesSettles == \E o \in ListingOutcomes : CbListResourcesDone(o)

AuthNext ==
    \/ StLoadTokensDone
    \/ StConnectSettles
    \/ StListToolsSettles
    \/ StListPromptsSettles
    \/ StListResourcesSettles
    \/ CallbackArrives
    \/ CbFinishAuthDone
    \/ CbListToolsSettles
    \/ CbListPromptsSettles
    \/ CbListResourcesSettles

SpecAuth == AuthInit /\ [][AuthNext]_vars

---------------------------------------------------------------------------
(* SpecChat: the WebSocket server, index.ts:484-518.  Several clients      *)
(* connect, send messages and disconnect; every message starts its own     *)
(* activation of processMessageWithClaude, and nothing makes a message     *)
(* wait for the activation before it.  The model's answers here are the    *)
(* ones without tool calls, so an activation is: the model request, then   *)
(* the streamed words or the error text, then "[END]".                     *)

MaxSockets == 2     \* connections accepted
MaxTurns == 2       \* messages received, over all connections

(* the text of the n-th message received: every message has its own *)
ChatText(n) == "q" \o ToString(n)

procVars == <<sessionVars, history, messages, request, response, tpc, round, calls, wi,
              sent, errAt, inv, st, cb>>

(* Map.set, Map.delete, and conversationHistories.get(ws) || [] *)
MapSet(map, ws, v) == [x \in DOMAIN map \cup {ws} |-> IF x = ws THEN v ELSE map[x]]
MapDelete(map, ws) == [x \in DOMAIN map \ {ws} |-> map[x]]
MapGet(map, ws) == IF ws \in DOMAIN map THEN map[ws] ELSE <<>>

(* the entry is pushed on every connection's history *)
PushEntry_All(map, ws, e) == [x \in DOMAIN map |-> Append(map[x], e)]

(* history.push(...), index.ts:500: the array is the one held in the Map,  *)
(* or a fresh one that nothing else refers to.                             *)
PushEntry(map, ws, e) ==
    IF ws \in DOMAIN map THEN [map EXCEPT ![ws] = Append(@, e)] ELSE map

(* ws.send: a frame goes on the wire of an open socket; here each frame    *)
(* also carries the activation that sent it.  On a socket that is no       *)
(* longer open nothing is sent.                                            *)
WsSend(ws, t, frames) ==
    wsSent' = IF sockets[ws] = "open"
              THEN [wsSent EXCEPT ![ws] =
                       @ \o [k \in DOMAIN frames |-> [turn |-> t, frame |-> frames[k]]]]
              ELSE wsSent

(* the history is passed with the new entry still in it *)
NewTurn_WholeHistory(ws, conversationHistory, u) ==
    [ws |-> ws, pc |-> "model",
     messages |-> InitialMessages(Append(conversationHistory, UserEntry(u)), u),
     words |-> <<>>, wi |-> 0]

(* processMessageWithClaude up to its first await, index.ts:247-276 *)
NewTurn(ws, conversationHistory, u) ==
    [ws |-> ws, pc |-> "model", messages |-> InitialMessages(conversationHistory, u),
     words |-> <<>>, wi |-> 0]

(* wss.on("connection"), index.ts:489-491 *)
OnConnection ==
    /\ Len(sockets) < MaxSockets
    /\ sockets' = Append(sockets, "open")
    /\ conversationHistories' = MapSet(conversationHistories, Len(sockets) + 1, <<>>)
    /\ wsSent' = Append(wsSent, <<>>)
    /\ UNCHANGED <<turns, srv>>
    /\ UNCHANGED procVars

(* ws.on("message"), index.ts:493-503 *)
OnMessage(ws, u) ==
    /\ sockets[ws] = "open"
    /\ Len(turns) < MaxTurns
    /\ LET pushed == Append(MapGet(conversationHistories, ws), UserEntry(u))
       IN /\ conversationHistories' = PushEntry(conversationHistories, ws, UserEntry(u))
          /\ turns' = Append(turns, NewTurn(ws, SubSeq(pushed, 1, Len(pushed) - 1), u))
    /\ UNCHANGED <<sockets, wsSent, srv>>
    /\ UNCHANGED procVars

(* ws.on("close"), index.ts:510-513 *)
OnClose(ws) ==
    /\ sockets[ws] = "open"
    /\ sockets' = [sockets EXCEPT ![ws] = "closed"]
    /\ conversationHistories' = MapDelete(conversationHistories, ws)
    /\ UNCHANGED <<turns, wsSent, srv>>
    /\ UNCHANGED procVars

(* anthropic.messages.create of activation t resolves with r, which ends   *)
(* the loop of index.ts:279; index.ts:352-370 up to the first timer.       *)
TurnModelResponds(t, r) ==
    /\ turns[t].pc = "model"
    /\ ~ContinuesLoop(r)
    /\ IF HasText(r)
       THEN /\ WsSend(turns[t].ws, t, <<Chunk(WordChunk(Words(r), 1))>>)
            /\ turns' = [turns EXCEPT ![t].pc = "stream", ![t].words = Words(r), ![t].wi = 1]
       ELSE /\ WsSend(turns[t].ws, t, <<EndMarker>>)
            /\ turns' = [turns EXCEPT ![t].pc = "done"]
    /\ UNCHANGED <<sockets, conversationHistories, srv>>
    /\ UNCHANGED procVars

(* anthropic.messages.create of activation t rejects: index.ts:371-375 *)
TurnModelFails(t) ==
    /\ turns[t].pc = "model"
    /\ WsSend(turns[t].ws, t, CatchSends(ModelError))
    /\ turns' = [turns EXCEPT ![t].pc = "done"]
    /\ UNCHANGED <<sockets, conversationHistories, srv>>
    /\ UNCHANGED procVars

(* the 10 ms timer of activation t fires, index.ts:362-370 *)
TurnStreamTick(t) ==
    /\ turns[t].pc = "stream"
    /\ IF turns[t].wi < Len(turns[t].words)
       THEN /\ WsSend(turns[t].ws, t, <<Chunk(WordChunk(turns[t].words, turns[t].wi + 1))>>)
            /\ turns' = [turns EXCEPT ![t].wi = @ + 1]
       ELSE /\ WsSend(turns[t].ws, t, <<EndMarker>>)
            /\ turns' = [turns EXCEPT ![t].pc = "done"]
    /\ UNCHANGED <<sockets, conversationHistories, srv>>
    /\ UNCHANGED procVars

ChatNext ==
    \/ OnConnection
    \/ \E ws \in DOMAIN sockets : OnMessage(ws, ChatText(Len(turns) + 1))
    \/ \E ws \in DOMAIN sockets : OnClose(ws)
    \/ \E t \in DOMAIN turns : \E r \in FinalResponses(SampleTexts) : TurnModelResponds(t, r)
    \/ \E t \in DOMAIN turns : TurnModelFails(t)
    \/ \E t \in DOMAIN turns : TurnStreamTick(t)

SpecChat == Init /\ [][ChatNext]_vars

---------------------------------------------------------------------------
(* SpecServer: the Polymarket MCP server, part_001.  A tool is called with *)
(* arguments; its handler asks the Polymarket API through the client and   *)
(* returns a result.  A fetch answers with an HTTP status and a body, or   *)
(* rejects.  A text is the sequence of its pieces.                         *)

MaxLimit == 101     \* the largest limit argument tried

ToolNames == {"search_markets", "get_market", "search_events", "get_event", "list_tags",
              "get_trades", "analyze_market"}
Slugs == {"will-x-happen"}
FetchOutcomes == {"200", "404", "500", "rejected"}
(* a 200 answer carries a body of the declared type (Market, Trade[], ...); *)
(* the handlers' control flow reads its conditionId and how many trades    *)
(* it lists                                                                *)
Bodies == [conditionId : {"", "0xabc"}, trades : {0, 2}]

(* the arguments of a call: limit and include_trades may be left out *)
ToolArgs ==
    {a \in [hasLimit : BOOLEAN, limit : 0..MaxLimit, slug : Slugs,
            include_trades : {"undefined", "true", "false"}] : ~a.hasLimit => a.limit = 0}

(* the inputSchema defaults: part_001:312, 411, 522, 565, 622 *)
DefaultLimit(tool) ==
    CASE tool \in {"search_markets", "search_events"} -> 10
      [] tool = "list_tags" -> 50
      [] OTHER -> 20
ParseArgs(tool, a) ==
    [limit |-> IF a.hasLimit THEN a.limit ELSE DefaultLimit(tool),
     slug |-> a.slug,
     include_trades |-> a.include_trades # "false"]

(* the request each client method builds: part_001:86-98, 110-112,        *)
(* 136-147, 159-161, 180-186, 205-214                                     *)
ClientRequest(tool, params) ==
    CASE tool = "search_markets" ->
             [url |-> "gamma/markets", limit |-> ToString(params.limit), key |-> "none"]
      [] tool = "search_events" ->
             [url |-> "gamma/events", limit |-> ToString(params.limit), key |-> "none"]
      [] tool = "list_tags" ->
             [url |-> "gamma/tags", limit |-> ToString(params.limit), key |-> "none"]
      [] tool = "get_trades" ->
             [url |-> "data/trades", limit |-> ToString(params.limit), key |-> "none"]
      [] tool = "get_event" ->
             [url |-> "gamma/events/slug", limit |-> "none", key |-> params.slug]
      [] OTHER ->
             [url |-> "gamma/markets/slug", limit |-> "none", key |-> params.slug]

(* client.getTrades({ market: market.conditionId, limit: 20 }), part_001:658 *)
TradesRequest(conditionId) ==
    [url |-> "data/trades", limit |-> ToString(20), key |-> conditionId]

(* what the client throws for an answer that is not ok, or when fetch     *)
(* itself rejects: part_001:100-102, 114-119, 149-151, 163-168, 188-190,   *)
(* 216-218                                                                *)
ClientError(req, o) ==
    IF o = "rejected" THEN Err(<<"fetch failed">>)
    ELSE IF o = "404" /\ req.url = "gamma/markets/slug" THEN Err(<<"Market not found: ", req.key>>)
    ELSE IF o = "404" /\ req.url = "gamma/events/slug" THEN Err(<<"Event not found: ", req.key>>)
    ELSE IF req.url = "data/trades" THEN Err(<<"Polymarket Data API error: ", o>>)
    ELSE Err(<<"Polymarket API error: ", o>>)

(* the handler lets the error out *)
HandlerCatch_Rethrows(r, e) == [r EXCEPT !.pc = "threw", !.err = e]

(* the catch of every handler: part_001:346-351, 393-398, 444-449,        *)
(* 504-509, 547-552, 603-608, 691-696                                     *)
HandlerCatch(r, e) ==
    [r EXCEPT !.pc = "returned",
              !.result = [isError |-> TRUE,
                          content |-> <<[type |-> "text",
                                         text |-> <<"Error: ">> \o
                                             (IF e.isError THEN e.message
                                                           ELSE <<"Unknown error">>)]>>]]

(* return { content: [{ type: "text", text: response }] } *)
HandlerReturn(r, text) ==
    [r EXCEPT !.pc = "returned", !.sections = text,
              !.result = [isError |-> FALSE,
                          content |-> <<[type |-> "text", text |-> text]>>]]

(* analyze_market after the inner try, part_001:667-690 *)
AnalysisReturn(r, text) == HandlerReturn(r, text \o <<"Market Health">>)

(* formatTradesSummary(trades), part_001:260-281: the buy and the sell     *)
(* percentage are each a count divided by trades.length; the call is kept *)
(* by its divisor.                                                        *)
FormatTradesSummary(r, trades) == [r EXCEPT !.divisors = Append(@, trades)]

(* the handler formats whatever list it got *)
GetTradesReturn_NoEmptyCheck(r, trades) ==
    HandlerReturn(FormatTradesSummary(r, trades), <<"Recent Trading Activity", "Recent Trades">>)

(* get_trades after its await, part_001:579-602 *)
GetTradesReturn(r, trades) ==
    IF trades = 0
    THEN HandlerReturn(r, <<"No trades found matching the criteria.">>)
    ELSE HandlerReturn(FormatTradesSummary(r, trades),
                       <<"Recent Trading Activity", "Recent Trades">>)

(* the inner catch rethrows *)
TradesCatch_Rethrows(r, e) == HandlerCatch(r, e)

(* } catch (e) { // Silently fail if trades not available }, part_001:662-664 *)
TradesCatch(r, e) == AnalysisReturn(r, r.sections)

(* a tool is called: the handler up to its await, part_001:327-329 etc.   *)
(* The server keeps nothing from one call to the next, so a behaviour is   *)
(* one call.                                                               *)
ToolCalled(tool, a) ==
    /\ srv.pc = "idle"
    /\ LET params == ParseArgs(tool, a)
       IN srv' = [IdleServer EXCEPT !.pc = "fetch", !.tool = tool, !.params = params,
                                    !.requests = <<ClientRequest(tool, params)>>]
    /\ UNCHANGED <<sockets, conversationHistories, turns, wsSent>>
    /\ UNCHANGED procVars

(* the handler's first fetch settles *)
FetchDone(o, body) ==
    /\ srv.pc = "fetch"
    /\ LET r == [srv EXCEPT !.outcomes = Append(@, o)]
       IN srv' =
            IF o # "200" THEN HandlerCatch(r, ClientError(srv.requests[1], o))
            ELSE IF srv.tool = "analyze_market"
            THEN LET text == <<"Market Analysis", "Probability Analysis">>
                 IN IF srv.params.include_trades /\ body.conditionId # ""
                    THEN [r EXCEPT !.pc = "trades", !.sections = text,
                                   !.requests = Append(@, TradesRequest(body.conditionId))]
                    ELSE AnalysisReturn(r, text)
            ELSE IF srv.tool = "get_trades"
            THEN GetTradesReturn(r, body.trades)
            ELSE HandlerReturn(r, <<srv.tool>>)
    /\ UNCHANGED <<sockets, conversationHistories, turns, wsSent>>
    /\ UNCHANGED procVars

(* analyze_market's getTrades settles, part_001:656-664 *)
TradesFetchDone(o, body) ==
    /\ srv.pc = "trades"
    /\ LET r == [srv EXCEPT !.outcomes = Append(@, o)]
       IN srv' =
            IF o # "200" THEN TradesCatch(r, ClientError(srv.requests[2], o))
            ELSE IF body.trades > 0
            THEN AnalysisReturn(FormatTradesSummary(r, body.trades),
                                Append(r.sections, "Recent Trading Activity"))
            ELSE AnalysisReturn(r, r.sections)
    /\ UNCHANGED <<sockets, conversationHistories, turns, wsSent>>
    /\ UNCHANGED procVars

ServerNext ==
    \/ \E tool \in ToolNames : \E a \in ToolArgs : ToolCalled(tool, a)
    \/ \E o \in FetchOutcomes : \E body \in Bodies : FetchDone(o, body)
    \/ \E o \in FetchOutcomes : \E body \in Bodies : TradesFetchDone(o, body)

SpecServer == Init /\ [][ServerNext]_vars

---------------------------------------------------------------------------
(* SpecVariant: the backend of part_000, whose session goes over a         *)
(* WebSocketClientTransport.  It has one client, created at start-up       *)
(* (part_000:32-48) and never replaced.  Its message handler, its first    *)
(* model request, its catch and its streaming loop (part_000:109-145,      *)
(* 189-213, 274-283) are the text of index.ts, so ReceiveMessage,          *)
(* ModelFail, StartStreaming and StreamTick are the steps here too; the    *)
(* tool round (part_000:146-188) is its own.                               *)

(* response.content.find(block => block.type === "tool_use"), part_000:147-149 *)
HasToolUse(r) == \E k \in DOMAIN r.content : IsToolUse(r.content[k])
FirstToolUse(r) ==
    LET k == CHOOSE k \in DOMAIN r.content :
                 /\ IsToolUse(r.content[k])
                 /\ \A m \in 1..(k - 1) : ~IsToolUse(r.content[m])
    IN r.content[k]

(* the loop test of part_000:146 and the break of line 151 *)
VariantContinuesLoop(r) == r.stop_reason = "tool_use" /\ HasToolUse(r)

(* mcpClient!.callTool(...), part_000:157-160: one request on the client *)
VariantCallTool(toolUse, mc) ==
    [NewInvocation(toolUse) EXCEPT !.pc = "callTool", !.cl = mc, !.attempts = 1]

(* a request is made for every tool_use block of the response *)
VariantInvocations_EveryBlock(r, mc) ==
    [j \in DOMAIN ToolUseBlocks(r) |-> VariantCallTool(ToolUseBlocks(r)[j], mc)]

(* part_000:147-160: the round is about the first tool_use block *)
VariantInvocations(r, mc) == <<VariantCallTool(FirstToolUse(r), mc)>>

(* part_000:171-180 *)
VariantToolResultMessage(toolUse, content) ==
    [role |-> "user", content |-> <<ToolResult(toolUse, content)>>]

(* anthropic.messages.create resolves with r: part_000:126-160 or 182-204. *)
VariantModelRespond(r) ==
    /\ tpc = "model"
    /\ response' = r
    /\ IF VariantContinuesLoop(r)
       THEN /\ calls < MaxToolCalls
            /\ inv' = VariantInvocations(r, mcpClient)
            /\ round' = round + 1
            /\ calls' = calls + Len(inv')
            /\ tpc' = "tools"
            /\ UNCHANGED <<messages, wi, sent, errAt>>
       ELSE StartStreaming(r)
    /\ UNCHANGED <<outerVars, history, request, st, cb>>
    /\ UNCHANGED sessionVars

(* await mcpClient!.callTool(...) settles: part_000:157-188, or the catch  *)
(* of part_000:209-213.                                                    *)
VariantCallToolDone(i, o) ==
    /\ tpc = "tools"
    /\ inv[i].pc = "callTool"
    /\ o \in CallToolOutcomes(clients[inv[i].cl])
    /\ LET r == [inv[i] EXCEPT !.outs = Append(@, o)]
       IN IF o = "ok"
          THEN /\ inv' = [inv EXCEPT ![i] =
                     [r EXCEPT !.pc = "returned",
                               !.result = ToolResult(r.toolUse,
                                   ResultContent(r.toolUse.name, r.toolUse.input))]]
               /\ messages' = messages \o
                     <<[role |-> "assistant", content |-> response.content],
                       VariantToolResultMessage(r.toolUse,
                           ResultContent(r.toolUse.name, r.toolUse.input))>>
               /\ request' = FollowUpRequest(messages', availableTools)
               /\ tpc' = "model"
               /\ UNCHANGED <<sent, errAt>>
          ELSE /\ inv' = [inv EXCEPT ![i] = Thrown(r, OutcomeError(o))]
               /\ sent' = sent \o CatchSends(OutcomeError(o))
               /\ tpc' = "done"
               /\ errAt' = "tools"
               /\ UNCHANGED <<messages, request>>
    /\ UNCHANGED <<outerVars, history, response, round, calls, wi, st, cb>>
    /\ UNCHANGED sessionVars

(* the WebSocket to the MCP server closes; nothing in part_000 reopens it *)
VariantTransportCloses ==
    /\ mcpClient # NULL
    /\ clients[mcpClient] = "connected"
    /\ clients' = [clients EXCEPT ![mcpClient] = "closed"]
    /\ UNCHANGED <<mcpClient, mcpTransport, oauthProvider, availableTools, inv, st, cb>>
    /\ UNCHANGED turnVars

VariantModelResponds == \E r \in Responses(SampleTexts) : VariantModelRespond(r)
VariantCallToolSettles ==
    \E i \in DOMAIN inv : \E o \in {"ok", "expired", "error", "closed"} : VariantCallToolDone(i, o)

VariantNext ==
    \/ MessageArrives
    \/ VariantModelResponds
    \/ ModelFail
    \/ VariantCallToolSettles
    \/ StreamTick
    \/ VariantTransportCloses

SpecVariant == Init /\ [][VariantNext]_vars

---------------------------------------------------------------------------
(* Properties of the tool-invocation retry and of the turn (Spec) *)

NoErrorSent == \A k \in DOMAIN sent : sent[k].kind # "error"

EndsWithErrorAndEnd ==
    /\ Len(sent) >= 2
    /\ sent[Len(sent) - 1].kind = "error"
    /\ sent[Len(sent)] = EndMarker

ExpectedResult(b) == ToolResult(b, ResultContent(b.name, b.input))

(* C1: an invocation whose first callTool failed with a session-expiry     *)
(* error and whose second succeeded made exactly one reconnectMCPSession   *)
(* between the two and returned its tool_result; when every invocation of  *)
(* the round went that way or succeeded at once, the round sent no error   *)
(* to the caller.                                                          *)
C1_ExpiryThenSuccess ==
    /\ \A i \in DOMAIN inv :
          inv[i].outs = <<"expired", "ok">> =>
              /\ inv[i].recon = 1
              /\ inv[i].attempts = 2
              /\ inv[i].pc = "returned"
              /\ inv[i].result = ExpectedResult(inv[i].toolUse)
    /\ ( /\ \A i \in DOMAIN inv : inv[i].outs \in {<<"ok">>, <<"expired", "ok">>}
         /\ errAt # "model" )
       => NoErrorSent

C1_Witness ==
    /\ Len(inv) = 1
    /\ inv[1].outs = <<"expired", "ok">>
    /\ tpc = "done"
    /\ NoErrorSent
    /\ sent[Len(sent)] = EndMarker

(* C2: when the first attempt and the retry both fail with a session       *)
(* expiry there is no third attempt and no second reconnect: the callback  *)
(* throws the expiry error, and the caller has an error message followed   *)
(* by "[END]".                                                             *)
C2_SecondExpiryPropagates ==
    \A i \in DOMAIN inv :
        (Len(inv[i].outs) >= 2 /\ inv[i].outs[1] = "expired" /\ inv[i].outs[2] = "expired")
            => /\ inv[i].attempts = 2
               /\ inv[i].recon = 1
               /\ inv[i].pc = "threw"
               /\ inv[i].err = ExpiredError
               /\ tpc = "done"
               /\ EndsWithErrorAndEnd

C2_Witness ==
    /\ Len(inv) = 1
    /\ inv[1].outs = <<"expired", "expired">>
    /\ sent = <<ErrorChunk(ExpiredError), EndMarker>>

(* C3: the tool-result message that follows an assistant tool-call message *)
(* has as many entries as the assistant message has tool_use blocks, and   *)
(* for each block exactly one entry with that block's id, carrying that    *)
(* block's result.                                                         *)
C3_OneResultPerBlock ==
    \A k \in DOMAIN messages :
        (messages[k].role = "assistant" /\ k < Len(messages)) =>
            LET blocks == SelectSeq(messages[k].content, IsToolUse)
                results == messages[k + 1].content
            IN /\ messages[k + 1].role = "user"
               /\ Len(results) = Len(blocks)
               /\ \A j \in DOMAIN blocks :
                     /\ Cardinality({m \in DOMAIN results :
                            results[m].type = "tool_result"
                            /\ results[m].tool_use_id = blocks[j].id}) = 1
                     /\ \E m \in DOMAIN results : results[m] = ExpectedResult(blocks[j])

(* Two results in one message, the second block's invocation having        *)
(* returned before the first one's (which reconnected in between).         *)
C3_Witness ==
    /\ Len(inv) = 2
    /\ inv[1].outs = <<"expired", "ok">>
    /\ inv[2].outs = <<"ok">>
    /\ Len(messages) >= 2
    /\ messages[Len(messages)].role = "user"
    /\ messages[Len(messages) - 1].role = "assistant"
    /\ Len(messages[Len(messages)].content) = 2

(* C5: at most one "[END]" is ever sent, it is the last thing sent and     *)
(* nothing is sent after it; and once a message has arrived, "[END]" is    *)
(* eventually sent, whichever way the turn goes.                           *)
EndCount == Cardinality({k \in DOMAIN sent : sent[k] = EndMarker})

C5_ExactlyOneEnd ==
    /\ [](/\ EndCount <= 1
          /\ (EndCount = 1 <=> tpc = "done")
          /\ (EndCount = 1 => sent[Len(sent)] = EndMarker))
    /\ [][EndCount = 1 => sent' = sent]_vars
    /\ ((tpc # "idle") ~> (EndCount = 1))

C5_Witness ==
    /\ tpc = "done"
    /\ errAt = "none"
    /\ round = 2
    /\ Len(sent) = 3
    /\ EndCount = 1

(* C6: a turn that ended in the catch of line 371 sent exactly one error   *)
(* chunk and then exactly one "[END]", and the connection's history holds  *)
(* the earlier entries and the new user entry only.                        *)
C6_ErrorThenEndHistoryKept ==
    errAt # "none" =>
        /\ tpc = "done"
        /\ Len(sent) = 2
        /\ sent[1].kind = "error"
        /\ sent[2] = EndMarker
        /\ Len(history) = 2
        /\ history[1] = UserEntry("hello")
        /\ \A k \in DOMAIN history : history[k].role = "user"
        /\ \E u \in UserTexts : history[2] = UserEntry(u)

C6_Witness ==
    /\ errAt = "tools"
    /\ \E i \in DOMAIN inv : inv[i].err = ToolError
    /\ Len(messages) = 3
    /\ sent = <<ErrorChunk(ToolError), EndMarker>>

(* C8: an invocation whose pending callTool was rejected because the       *)
(* client was closed under it is retried, and does not fail.               *)
C8_TornDownCallIsRetried ==
    \A i \in DOMAIN inv :
        (inv[i].outs # <<>> /\ inv[i].outs[1] = "closed") => inv[i].pc # "threw"

(* C9: at most one reconnectMCPSession is in progress at any time.         *)
Reconnecting(i) == inv[i].pc \in {"close", "connect", "listTools", "listPrompts", "listResources"}

C9_OneReconnectInFlight ==
    Cardinality({i \in DOMAIN inv : Reconnecting(i)}) <= 1

(* C10: when every invocation of a round of two or more gets a session     *)
(* expiry on its first attempt, and nothing fails but by the invocations'  *)
(* own reconnects closing or replacing a client, the round sends no error. *)
RaceErrors == {ClosedError, NotConnectedError}

C10_ConcurrentExpiriesRecovered ==
    ( /\ Len(inv) >= 2
      /\ \A i \in DOMAIN inv : inv[i].outs # <<>> /\ inv[i].outs[1] = "expired"
      /\ \A i \in DOMAIN inv : inv[i].pc = "threw" => inv[i].err \in RaceErrors )
    => errAt # "tools"

Catalogs == {ConvertTools(l) : l \in ServerToolLists}

(* C11: an attempt that failed with an error that is no session expiry is  *)
(* the invocation's last: the callback has thrown that very error, no      *)
(* reconnect was started for it and no further callTool was made.          *)
NotExpiry == {"error", "closed", "rejected"}

C11_OtherFailurePropagates ==
    \A i \in DOMAIN inv : \A k \in DOMAIN inv[i].outs :
        inv[i].outs[k] \in NotExpiry =>
            /\ k = Len(inv[i].outs)
            /\ inv[i].attempts = k
            /\ inv[i].recon = k - 1
            /\ inv[i].pc = "threw"
            /\ inv[i].err = OutcomeError(inv[i].outs[k])

C11_Witness ==
    /\ Len(inv) = 2
    /\ inv[1].outs = <<"error">>
    /\ inv[1].recon = 0
    /\ inv[2].pc = "callTool"
    /\ sent = <<ErrorChunk(ToolError), EndMarker>>

(* C12: whatever the provider answers, an invocation makes at most two     *)
(* callTool attempts and starts at most one reconnect.                     *)
C12_AttemptsBounded ==
    \A i \in DOMAIN inv :
        /\ inv[i].attempts <= 2
        /\ inv[i].recon <= 1
        /\ Len(inv[i].outs) <= inv[i].attempts

C12_Witness ==
    /\ Len(inv) = 2
    /\ \A i \in DOMAIN inv :
          inv[i].attempts = 2 /\ inv[i].recon = 1 /\ inv[i].outs = <<"expired", "expired">>

(* C17: a reconnect closes the client that is current when it starts (be   *)
(* it closed already), then creates one new transport and client, current  *)
(* from then on, with the provider it had; it goes connect, listTools,     *)
(* listPrompts, listResources in that order, listTools being called on the *)
(* connected client and replacing the catalog; and the provider's state    *)
(* changes only when a connect is answered with UnauthorizedError.         *)
ReconnectOrder ==
    {<<"callTool", "close">>, <<"close", "connect">>, <<"connect", "listTools">>,
     <<"listTools", "listPrompts">>, <<"listPrompts", "listResources">>,
     <<"listResources", "callTool">>}

SameRound == round' = round /\ Len(inv') = Len(inv)

C17_ReconnectSteps ==
    [][SameRound =>
         /\ \A i \in DOMAIN inv :
               /\ inv'[i].recon # inv[i].recon =>
                     /\ inv'[i].recon = inv[i].recon + 1
                     /\ inv'[i].pc = "close"
                     /\ inv'[i].cl = mcpClient
                     /\ clients'[mcpClient] = "closed"
                     /\ Len(clients') = Len(clients)
               /\ (inv[i].pc # inv'[i].pc /\ inv[i].pc \in {"close", "connect", "listTools", "listPrompts"}) =>
                     (inv'[i].pc = "threw" \/ <<inv[i].pc, inv'[i].pc>> \in ReconnectOrder)
               /\ (inv[i].pc = "connect" /\ inv'[i].pc = "listTools") =>
                     (clients'[inv[i].cl] = "connected" /\ inv'[i].cl = mcpClient)
               /\ (inv[i].pc = "listTools" /\ inv'[i].pc \notin {"listTools", "threw"}) =>
                     availableTools' \in Catalogs
         /\ Len(clients') # Len(clients) =>
               /\ Len(clients') = Len(clients) + 1
               /\ \E i \in DOMAIN inv : inv[i].pc = "close" /\ inv'[i].pc = "connect"
                                        /\ inv'[i].cl = Len(clients')
               /\ mcpClient' = Len(clients')
               /\ mcpTransport' = Len(clients')
               /\ clients'[mcpClient'] = "connecting"
               /\ oauthProvider' = oauthProvider
         /\ oauthProvider' # oauthProvider =>
               \E i \in DOMAIN inv : /\ inv[i].pc = "connect"
                                     /\ inv'[i].pc = "threw"
                                     /\ inv'[i].err = UnauthorizedError]_vars

(* Two reconnects have each closed client 1, the second finding it closed  *)
(* already, and each has created its own client.                           *)
C17_Witness ==
    /\ Len(inv) = 2
    /\ inv[1].pc = "connect"
    /\ inv[2].pc = "connect"
    /\ clients[1] = "closed"
    /\ Len(clients) = 3
    /\ mcpClient = 3

(* C18: the messages of every model request are the history, the user     *)
(* message, then for each tool round the assistant message with its        *)
(* tool_use blocks and right after it one user message with one            *)
(* tool_result per block; a request never ends with an assistant message;  *)
(* and the turn's list is the last request's, or that plus the assistant   *)
(* message whose results are awaited.                                      *)
IsToolResult(x) == x.type = "tool_result"

IsToolCallMessage(m) ==
    m.role = "assistant" /\ Len(SelectSeq(m.content, IsToolUse)) > 0

IsResultMessageFor(m, a) ==
    /\ m.role = "user"
    /\ Len(m.content) = Len(SelectSeq(a.content, IsToolUse))
    /\ \A k \in DOMAIN m.content : IsToolResult(m.content[k])

C18_MessageOrder ==
    tpc # "idle" =>
        LET h == Len(history) - 1
            m == request.messages
            rounds == (Len(m) - h - 1) \div 2
        IN /\ Len(m) = h + 1 + 2 * rounds
           /\ \A j \in 1..h : m[j] = HistoryMessage(history[j])
           /\ m[h + 1] = UserMessage(history[h + 1].content)
           /\ \A j \in 1..rounds :
                 /\ IsToolCallMessage(m[h + 2 * j])
                 /\ IsResultMessageFor(m[h + 2 * j + 1], m[h + 2 * j])
           /\ m[Len(m)].role = "user"
           /\ \/ messages = m
              \/ /\ tpc \in {"tools", "done"}
                 /\ SubSeq(messages, 1, Len(m)) = m
                 /\ Len(messages) = Len(m) + 1
                 /\ IsToolCallMessage(messages[Len(messages)])

(* The follow-up request of a round of two concurrent tool calls. *)
C18_Witness ==
    /\ tpc = "model"
    /\ round = 1
    /\ Len(inv) = 2
    /\ request.system = FALSE
    /\ Len(request.messages) = Len(history) + 2
    /\ Len(request.messages[Len(request.messages)].content) = 2

(* C19: an invocation whose callTool failed with a provider error that is  *)
(* no session expiry has returned a tool_result, which goes to the model,  *)
(* and the turn has not ended on that failure.                             *)
C19_ToolErrorFedBack ==
    \A i \in DOMAIN inv :
        (inv[i].outs # <<>> /\ inv[i].outs[Len(inv[i].outs)] = "error") =>
            /\ inv[i].pc = "returned"
            /\ IsToolResult(inv[i].result)
            /\ errAt # "tools"

---------------------------------------------------------------------------
(* Properties of the streamed answer (SpecStream) *)

IsChunk(x) == x.kind = "chunk"

RECURSIVE ConcatChunks(_)
ConcatChunks(chunks) ==
    IF chunks = <<>> THEN <<>> ELSE Head(chunks).text \o ConcatChunks(Tail(chunks))

AnswerText(r) == IF HasText(r) THEN FirstText(r) ELSE <<>>

IsPrefix(a, b) == Len(a) <= Len(b) /\ SubSeq(b, 1, Len(a)) = a

(* C7: for a response that requests no tool call, what has been sent is    *)
(* chunks only, then (once done) exactly one "[END]"; the chunks joined in *)
(* send order are a prefix of the answer text while streaming and the      *)
(* whole text, spaces included, when done.                                 *)
C7_ChunksSpellAnswer ==
    (tpc \in {"stream", "done"} /\ errAt = "none" /\ round = 0) =>
        LET chunks == SelectSeq(sent, IsChunk)
        IN /\ IsPrefix(ConcatChunks(chunks), AnswerText(response))
           /\ tpc = "stream" => sent = chunks
           /\ tpc = "done" => /\ sent = chunks \o <<EndMarker>>
                              /\ ConcatChunks(chunks) = AnswerText(response)

C7_Witness ==
    /\ tpc = "done"
    /\ HasText(response)
    /\ FirstText(response) = <<" ", " ", "b">>
    /\ sent = <<Chunk(<<" ">>), Chunk(<<" ">>), Chunk(<<"b">>), EndMarker>>

---------------------------------------------------------------------------
(* Properties of start-up and authorization (SpecAuth) *)

Connected == mcpClient # NULL /\ clients[mcpClient] = "connected"

(* C4: when the initial connect failed with UnauthorizedError the process  *)
(* has not exited, and once the callback has handled a valid code the      *)
(* session is connected and the catalog is populated.                      *)
C4_ConnectedAfterAuthorization ==
    (st.err = UnauthorizedError /\ st.at = "connect") =>
        /\ st.pc # "exited"
        /\ (cb.pc = "done" /\ cb.code = "valid") =>
               (Connected /\ Len(availableTools) > 0)

(* C13: a failed prompts or resources listing is caught: the operation     *)
(* (start-up's connect, the callback's completeAuthorization) goes on and  *)
(* completes, with the catalog that listTools gave; an operation that has  *)
(* failed has not failed in one of these two listings.  (A reconnect runs  *)
(* the same initializeTools as the callback, index.ts:224 and 185.)        *)
C13_OptionalListingsNeverFatal ==
    /\ st.optFailed # {} =>
          /\ st.pc \in {"listResources", "ready"}
          /\ st.err = NoError
          /\ availableTools \in Catalogs
    /\ cb.optFailed # {} =>
          /\ cb.pc = "listResources" \/ (cb.pc = "done" /\ cb.status = 200)
          /\ cb.err = NoError
          /\ availableTools \in Catalogs
    /\ st.pc = "exited" => st.err \in {ConnectError, ListError}

C13_Witness ==
    /\ st.optFailed = {"prompts", "resources"}
    /\ st.pc = "ready"
    /\ Connected

(* C14: a start-up failure that is no authorization-required error is      *)
(* rethrown and the process exits with status 1, after which nothing runs; *)
(* an authorization-required error never ends the process.                 *)
FatalErrors == {ConnectError, ListError}

C14_OnlyOtherFailuresExit ==
    /\ [](/\ st.err \in FatalErrors => (st.pc = "exited" /\ st.exitStatus = "1")
          /\ st.pc = "exited" => st.err \in FatalErrors
          /\ st.err = UnauthorizedError =>
                (st.pc = "waitingAuth" /\ st.exitStatus = "running"))
    /\ [][st.pc = "exited" => UNCHANGED vars]_vars

C14_Witness ==
    /\ st.pc = "exited"
    /\ st.err = ConnectError
    /\ st.exitStatus = "1"
    /\ clients = <<"closed">>

(* C15: with an accepted code the callback runs finishAuth, then clears the *)
(* pending-authorization marker, then populates the catalog as connect     *)
(* does: the marker stands while finishAuth is awaited, it is cleared only *)
(* by the step in which finishAuth has succeeded, the listings start in    *)
(* that same step, and a callback that answered 200 left a catalog that    *)
(* listTools gave.                                                         *)
Populating(r) == r.pc \in {"listTools", "listPrompts", "listResources"}

C15_AuthorizationOrder ==
    /\ [](/\ (cb.pc = "finishAuth" /\ cb.code = "valid") => oauthProvider = "pending"
          /\ Populating(cb) => (cb.code = "valid" /\ oauthProvider = "idle")
          /\ (cb.pc = "done" /\ cb.status = 200) =>
                (cb.code = "valid" /\ oauthProvider = "idle" /\ availableTools \in Catalogs))
    /\ [][(oauthProvider = "pending" /\ oauthProvider' # "pending") =>
              /\ cb.pc = "finishAuth"
              /\ cb.code = "valid"
              /\ cb'.pc \in {"listTools", "done"}]_vars

C15_Witness ==
    /\ cb.pc = "done"
    /\ cb.code = "valid"
    /\ cb.status = 200
    /\ oauthProvider = "idle"
    /\ availableTools = ConvertTools(<<SearchTool, TradesTool>>)

(* C16: a rejected code makes the callback answer 500 with the rejection,  *)
(* in the step in which finishAuth settles; that step leaves the marker,   *)
(* the catalog and the clients as they were, so the session is not         *)
(* connected by it.                                                        *)
C16_RejectedCodeChangesNothing ==
    /\ []((cb.pc = "done" /\ cb.code = "invalid") =>
              (cb.status = 500 /\ cb.err \in {InvalidGrantError, NoProviderError}))
    /\ [][(cb.pc = "finishAuth" /\ cb.code = "invalid" /\ cb' # cb) =>
              /\ cb'.pc = "done"
              /\ cb'.status = 500
              /\ cb'.err = InvalidGrantError
              /\ UNCHANGED sessionVars]_vars

C16_Witness ==
    /\ cb.pc = "done"
    /\ cb.code = "invalid"
    /\ cb.status = 500
    /\ cb.err = InvalidGrantError
    /\ oauthProvider = "pending"
    /\ availableTools = <<>>
    /\ ~Connected

(* C20: the session's state, read off the program's state, changes only    *)
(* along Disconnected -> Connecting -> {Connected, AwaitingAuthorization}, *)
(* AwaitingAuthorization -> Connected (in a step of the callback) and      *)
(* Connected -> Disconnected; a callback with an accepted code runs only   *)
(* in AwaitingAuthorization; and callTool is issued only while Connected.  *)
(* Connecting lasts from the creation of the client to the end of the      *)
(* operation that created it, catalog population included.                 *)
StartupConnecting == st.pc \in {"connect", "listTools", "listPrompts", "listResources"}

SessionState ==
    IF mcpClient = NULL THEN "Disconnected"
    ELSE IF clients[mcpClient] = "connecting" \/ StartupConnecting THEN "Connecting"
    ELSE IF oauthProvider = "pending" THEN "AwaitingAuthorization"
    ELSE IF clients[mcpClient] = "connected" THEN "Connected"
    ELSE "Disconnected"

SessionTransitions ==
    {<<"Disconnected", "Connecting">>, <<"Connecting", "Connected">>,
     <<"Connecting", "AwaitingAuthorization">>, <<"AwaitingAuthorization", "Connected">>,
     <<"Connected", "Disconnected">>}

Issues(i) ==
    /\ i \in DOMAIN inv'
    /\ inv'[i].attempts > (IF SameRound THEN inv[i].attempts ELSE 0)

C20_SessionStateMachine ==
    /\ []((cb.pc = "finishAuth" /\ cb.code = "valid") => SessionState = "AwaitingAuthorization")
    /\ [][/\ (SessionState' # SessionState /\ st'.pc # "exited") =>
                /\ <<SessionState, SessionState'>> \in SessionTransitions
                /\ SessionState = "AwaitingAuthorization" => cb' # cb
          /\ (\E i \in 1..MaxBlocks : Issues(i)) => SessionState = "Connected"]_vars

(* Properties of the tool catalog, the session objects and the loop (Spec) *)

ListingTools == \/ \E i \in DOMAIN inv : inv[i].pc = "listTools"
                \/ st.pc = "listTools"
                \/ cb.pc = "listTools"

(* C21: the tool catalog is always the empty initial catalog or the       *)
(* converted result of one whole listTools response, and it changes only  *)
(* in the step in which a listTools call settles, to such a result.       *)
C21_CatalogReplacedWhole ==
    /\ [](availableTools \in {<<>>} \cup Catalogs)
    /\ [][availableTools' # availableTools =>
             /\ ListingTools
             /\ availableTools' \in Catalogs]_vars

(* a reconnect has replaced the one-tool catalog by the two-tool one *)
C21_Witness ==
    /\ availableTools = ConvertTools(<<SearchTool, TradesTool>>)
    /\ \E i \in DOMAIN inv : inv[i].recon >= 1 /\ inv[i].pc = "returned"

(* Properties of the session objects during authorization (SpecAuth) *)

Recovering == cb.pc \in {"finishAuth", "listTools", "listPrompts", "listResources"}

(* C22: when start-up's authorization has failed, the recovery works on a  *)
(* client and a transport created after the failure, never on the objects  *)
(* start-up created.                                                       *)
C22_FailedSessionReplaced ==
    (st.err = UnauthorizedError /\ Recovering) =>
        /\ cb.cl # st.cl
        /\ mcpClient # st.cl
        /\ mcpTransport # st.cl

(* Properties of the connections' histories and frames (SpecChat) *)

OpenSockets == {ws \in DOMAIN sockets : sockets[ws] = "open"}
Others(ws) == DOMAIN conversationHistories \ {ws}
SameHistories(S) ==
    \A x \in S : /\ x \in DOMAIN conversationHistories'
                 /\ conversationHistories'[x] = conversationHistories[x]

(* C23: the histories belong one-to-one to the open connections: a new     *)
(* connection gets an empty history, a message on a connection appends     *)
(* the user entry to that connection's history and changes no other, a     *)
(* close removes that connection's history and no other, and no other      *)
(* step changes any history.                                               *)
C23_HistoryPerConnection ==
    /\ [](DOMAIN conversationHistories = OpenSockets)
    /\ [][/\ Len(sockets') > Len(sockets) =>
                /\ conversationHistories'[Len(sockets')] = <<>>
                /\ DOMAIN conversationHistories' = DOMAIN conversationHistories \cup {Len(sockets')}
                /\ SameHistories(DOMAIN conversationHistories)
          /\ Len(turns') > Len(turns) =>
                LET ws == turns'[Len(turns')].ws
                IN /\ DOMAIN conversationHistories' = DOMAIN conversationHistories
                   /\ SameHistories(Others(ws))
                   /\ Len(conversationHistories'[ws]) = Len(conversationHistories[ws]) + 1
                   /\ SubSeq(conversationHistories'[ws], 1, Len(conversationHistories[ws]))
                          = conversationHistories[ws]
          /\ \A ws \in DOMAIN sockets :
                (sockets[ws] = "open" /\ sockets'[ws] = "closed") =>
                    /\ DOMAIN conversationHistories' = DOMAIN conversationHistories \ {ws}
                    /\ SameHistories(Others(ws))
          /\ (sockets' = sockets /\ Len(turns') = Len(turns))
                => conversationHistories' = conversationHistories]_vars

(* two open connections, a message received on the first one only *)
C23_Witness ==
    /\ Len(sockets) = 2
    /\ sockets[1] = "open" /\ sockets[2] = "open"
    /\ Len(conversationHistories[1]) = 1
    /\ conversationHistories[2] = <<>>

(* Properties of the Polymarket server's tool handlers (SpecServer) *)

Range(f) == {f[k] : k \in DOMAIN f}
ResultText == srv.result.content[1].text
FirstFailed == srv.pc = "returned" /\ srv.outcomes[1] # "200"
BySlug == {"get_market", "analyze_market", "get_event"}

(* C24: a handler never throws; when its API request fails, it returns a   *)
(* result with isError true whose text is "Error: " and the message: for a *)
(* 404 of a market or event by slug "Market not found: <slug>" or "Event   *)
(* not found: <slug>", for any other status a message naming the status.   *)
C24_HandlersReturnErrors ==
    /\ srv.pc # "threw"
    /\ FirstFailed =>
          /\ srv.result.isError
          /\ Len(srv.result.content) = 1
          /\ srv.result.content[1].type = "text"
          /\ ResultText[1] = "Error: "
          /\ LET o == srv.outcomes[1]
                 message == SubSeq(ResultText, 2, Len(ResultText))
             IN /\ (o = "404" /\ srv.tool \in {"get_market", "analyze_market"}) =>
                       message = <<"Market not found: ", srv.params.slug>>
                /\ (o = "404" /\ srv.tool = "get_event") =>
                       message = <<"Event not found: ", srv.params.slug>>
                /\ (o = "500" \/ (o = "404" /\ srv.tool \notin BySlug)) =>
                       /\ o \in Range(message)
                       /\ \E k \in DOMAIN message : message[k] \in
                              {"Polymarket API error: ", "Polymarket Data API error: "}
                /\ message # <<>>

(* a market that does not exist has been asked for, and reported *)
C24_Witness ==
    /\ FirstFailed
    /\ srv.tool = "get_market"
    /\ srv.outcomes = <<"404">>
    /\ srv.result.isError

(* C25: the limit query parameter that search_markets, search_events and   *)
(* get_trades send to the Polymarket API is at most 100, whatever limit    *)
(* the tool was called with.                                               *)
C25_LimitAtMostHundred ==
    srv.tool \in {"search_markets", "search_events", "get_trades"} =>
        \A k \in DOMAIN srv.requests :
            srv.requests[k].limit \in {ToString(n) : n \in 0..100}

(* Properties of the retry's client and of the loop's end (Spec) *)

WantsTools(r) ==
    /\ r.stop_reason = "tool_use"
    /\ \E k \in DOMAIN r.content : r.content[k].type = "tool_use"
LeadingText(r) ==
    LET ks == {k \in DOMAIN r.content : r.content[k].type = "text"}
    IN IF ks = {} THEN <<>> ELSE r.content[CHOOSE k \in ks : \A m \in ks : k <= m].text

(* C27: a response makes the loop go round again exactly when its stop     *)
(* reason is tool_use and it has a tool_use block; otherwise the loop ends *)
(* with it, and what the turn then sends is the text of that response's    *)
(* first text block, in chunks, and "[END]"; only "[END]" when it has no   *)
(* text block.                                                             *)
C27_LoopEndsWithAnswer ==
    /\ [][(tpc = "model" /\ tpc' # "model" /\ errAt' # "model") =>
             IF WantsTools(response')
             THEN round' = round + 1 /\ tpc' \in {"tools", "done"}
             ELSE round' = round /\ tpc' \in {"stream", "done"} /\ errAt' = "none"]_vars
    /\ []((tpc = "done" /\ errAt = "none") =>
             LET chunks == SelectSeq(sent, IsChunk)
             IN /\ ~WantsTools(response)
                /\ sent = chunks \o <<EndMarker>>
                /\ ConcatChunks(chunks) = LeadingText(response)
                /\ (\A k \in DOMAIN response.content : response.content[k].type # "text")
                       => sent = <<EndMarker>>)

(* after a tool round, a response with stop reason tool_use and two text   *)
(* blocks but no tool_use block has ended the loop and the first text has  *)
(* been sent                                                               *)
C27_Witness ==
    /\ tpc = "done"
    /\ errAt = "none"
    /\ round = 1
    /\ response.stop_reason = "tool_use"
    /\ Len(response.content) = 2
    /\ sent = <<Chunk(<<"a", " ">>), Chunk(<<"b">>), EndMarker>>

(* Property of analyze_market (SpecServer) *)

(* C28: analyze_market returns an isError result exactly when its market   *)
(* fetch failed; when the trades fetch failed, it returns the analysis     *)
(* and the market health without isError and without the trading-activity *)
(* section.                                                                *)
C28_TradesFailureNotFatal ==
    (srv.tool = "analyze_market" /\ srv.pc = "returned") =>
        /\ srv.result.isError <=> srv.outcomes[1] # "200"
        /\ (Len(srv.outcomes) = 2 /\ srv.outcomes[2] # "200") =>
              /\ ~srv.result.isError
              /\ "Market Analysis" \in Range(ResultText)
              /\ "Market Health" \in Range(ResultText)
              /\ "Recent Trading Activity" \notin Range(ResultText)

(* the market was fetched, the trades request was answered with a 500 *)
C28_Witness ==
    /\ srv.tool = "analyze_market"
    /\ srv.pc = "returned"
    /\ srv.outcomes = <<"200", "500">>
    /\ ~srv.result.isError

(* Property of the frames of overlapping turns (SpecChat) *)

(* C29: on every connection the frames of a turn are all sent before any   *)
(* frame of a turn whose message arrived later.                            *)
C29_TurnsDoNotOverlap ==
    \A ws \in DOMAIN wsSent :
        \A p, q \in DOMAIN wsSent[ws] :
            p < q => wsSent[ws][p].turn <= wsSent[ws][q].turn

(* Property of the invocations of a turn that has failed (Spec) *)

(* C30: once the turn has sent its error message and "[END]" for a failed  *)
(* tool invocation, no invocation of the turn makes another callTool       *)
(* attempt or starts a reconnect.                                          *)
C30_SiblingsStopAfterFailure ==
    [][(tpc = "done" /\ errAt = "tools") =>
          \A i \in DOMAIN inv :
              /\ inv'[i].attempts = inv[i].attempts
              /\ inv'[i].recon = inv[i].recon]_vars

(* Properties of the clients under concurrent reconnects (Spec) *)

(* C31: whenever an invocation issues a callTool, or its reconnect issues  *)
(* the listTools of the catalog refresh, the client the request goes to    *)
(* has completed its connect.                                              *)
C31_RequestsOnConnectedClient ==
    [][\A i \in DOMAIN inv' :
          (/\ inv'[i].pc \in {"callTool", "listTools"}
           /\ (i \notin DOMAIN inv \/ inv[i].pc # inv'[i].pc \/ inv[i].attempts # inv'[i].attempts))
             => clients'[inv'[i].cl] = "connected"]_vars

(* C32: every client whose connect has succeeded is the current client or  *)
(* has been closed.                                                        *)
C32_NoConnectedClientOrphaned ==
    \A c \in DOMAIN clients : clients[c] = "connected" => c = mcpClient

(* Property of a reconnect that fails (Spec) *)

(* an invocation whose reconnect threw: it reconnected and made no retry *)
ReconnectFailed(i) == inv[i].pc = "threw" /\ inv[i].recon = 1 /\ inv[i].attempts = 1

C34_HealthTellsConnected ==
    /\ Health.mcpConnected => Connected
    /\ (st.err = UnauthorizedError /\ st.at = "connect" /\ oauthProvider = "pending")
           => ~Health.mcpConnected

(* Property of a connection's history and the turn's message list (SpecChat) *)

(* C35: a step changes the history of an open connection only by appending *)
(* one user entry, and does so exactly when a message is received on that  *)
(* connection; every entry of a history is a user entry; the message list  *)
(* of the turn then started is the history with the new entry, entry by    *)
(* entry, so the new user message is in it once, at the end.               *)
C35_OneUserEntryPerMessage ==
    /\ [](\A ws \in DOMAIN conversationHistories :
             \A k \in DOMAIN conversationHistories[ws] :
                 conversationHistories[ws][k].role = "user")
    /\ [][\A ws \in DOMAIN conversationHistories \cap DOMAIN conversationHistories' :
             LET h == conversationHistories[ws]
                 h2 == conversationHistories'[ws]
                 received == Len(turns') = Len(turns) + 1 /\ turns'[Len(turns')].ws = ws
             IN IF received
                THEN /\ Len(h2) = Len(h) + 1
                     /\ SubSeq(h2, 1, Len(h)) = h
                     /\ h2[Len(h2)].role = "user"
                     /\ LET m == turns'[Len(turns')].messages
                        IN /\ Len(m) = Len(h2)
                           /\ \A k \in DOMAIN m :
                                  /\ m[k].role = h2[k].role
                                  /\ m[k].content = <<[type |-> "string", value |-> h2[k].content]>>
                ELSE h2 = h]_vars

(* a second message on a connection whose first turn has ended *)
C35_Witness ==
    \E t \in DOMAIN turns :
        /\ t = 2
        /\ turns[1].ws = turns[2].ws
        /\ turns[1].pc = "done"
        /\ turns[2].ws \in DOMAIN conversationHistories
        /\ Len(conversationHistories[turns[2].ws]) = 2
        /\ Len(turns[2].messages) = 2

(* Property of the model requests of a turn (Spec) *)

(* C36: every request made to the model, the first of a turn and each      *)
(* follow-up after a tool round, carries the system instruction, the whole *)
(* message list and the catalog as they are when the request is made.      *)
C36_RequestsCarryEverything ==
    [][(tpc # "model" /\ tpc' = "model") =>
          /\ request'.system
          /\ request'.messages = messages'
          /\ request'.tools = availableTools']_vars


(* Property of a callback request without a code (SpecAuth) *)

(* C37: a callback request without a code, with or without an error        *)
(* parameter, is answered with status 400 in the step that receives it,    *)
(* and that step leaves the clients, the current client and transport, the *)
(* pending-authorization marker and the catalog as they were; the answered *)
(* request does nothing later; reconnectAfterAuth (its finishAuth await or *)
(* its missing-provider throw) starts only for a request with a code.      *)
C37_NoCodeIsClientError ==
    [][/\ (cb'.n = cb.n + 1 /\ cb'.code = "none") =>
             /\ cb'.pc = "done"
             /\ cb'.status = 400
             /\ cb'.err = NoError
             /\ UNCHANGED sessionVars
       /\ (cb.n > 0 /\ cb.code = "none" /\ cb'.n = cb.n) => cb' = cb
       /\ (cb'.n = cb.n + 1 /\ (cb'.pc = "finishAuth" \/ cb'.err = NoProviderError)) =>
             cb'.code # "none"]_vars

C37_Witness ==
    /\ cb.n > 0
    /\ cb.code = "none"
    /\ cb.status = 400
    /\ oauthProvider = "pending"
    /\ mcpTransport # NULL


(* Property of the tool round of the WebSocket-transport variant (SpecVariant) *)

(* C38: in the variant, a tool round makes one callTool request, for the   *)
(* first tool_use block of the response, on the one client; the request is *)
(* made once and no client is created; when it resolves, the assistant     *)
(* message and one user message with exactly one tool_result entry, the    *)
(* one of that block, are appended; when it fails, whatever the failure,   *)
(* the turn sends the error text and then "[END]" and sends nothing more.  *)
C38_VariantOneCallPerRound ==
    /\ [](/\ Len(inv) <= 1
          /\ Len(clients) = 1
          /\ mcpClient = 1
          /\ calls = round
          /\ \A i \in DOMAIN inv :
                /\ inv[i].attempts = 1
                /\ inv[i].retries = 0
                /\ inv[i].recon = 0
                /\ Len(inv[i].outs) <= 1
                /\ inv[i].cl = 1)
    /\ [][/\ (tpc = "model" /\ tpc' = "tools") =>
                /\ Len(inv') = 1
                /\ \E k \in DOMAIN response'.content :
                      /\ inv'[1].toolUse = response'.content[k]
                      /\ IsToolUse(response'.content[k])
                      /\ \A m \in 1..(k - 1) : ~IsToolUse(response'.content[m])
          /\ (tpc = "tools" /\ tpc' = "model") =>
                /\ Len(messages') = Len(messages) + 2
                /\ SubSeq(messages', 1, Len(messages)) = messages
                /\ messages'[Len(messages) + 1] =
                      [role |-> "assistant", content |-> response.content]
                /\ messages'[Len(messages')].role = "user"
                /\ Len(messages'[Len(messages')].content) = 1
                /\ messages'[Len(messages')].content[1].type = "tool_result"
                /\ messages'[Len(messages')].content[1].tool_use_id = inv[1].toolUse.id
          /\ (tpc = "tools" /\ inv'[1].pc = "threw") =>
                /\ tpc' = "done"
                /\ sent' = sent \o <<ErrorChunk(inv'[1].err), EndMarker>>
                /\ messages' = messages
          /\ (tpc = "done") => (sent' = sent /\ tpc' = "done")]_vars

(* the first round resolved the first of several tool_use blocks, and the  *)
(* callTool of the second round failed with the expiry text                *)
C38_Witness ==
    /\ tpc = "done"
    /\ errAt = "tools"
    /\ round = 2
    /\ Len(messages) >= 3
    /\ \E k \in DOMAIN messages :
          /\ messages[k].role = "assistant"
          /\ Len(SelectSeq(messages[k].content, IsToolUse)) > 1
          /\ Len(messages[k + 1].content) = 1
    /\ inv[1].err = ExpiredError
    /\ sent = <<ErrorChunk(ExpiredError), EndMarker>>


(* Property of the trade summaries of the server (SpecServer) *)

(* C39: no handler applies formatTradesSummary to an empty list, so no     *)
(* percentage is computed with divisor zero: get_trades answers an empty   *)
(* list with "No trades found matching the criteria." and formats nothing, *)
(* and analyze_market leaves the section out and formats nothing.          *)
C39_SummaryNeverOfEmptyList ==
    /\ \A k \in DOMAIN srv.divisors : srv.divisors[k] > 0
    /\ Len(srv.divisors) <= 1
    /\ (srv.divisors # <<>>) =>
          /\ srv.tool \in {"get_trades", "analyze_market"}
          /\ srv.pc = "returned"
          /\ \E k \in DOMAIN srv.sections : srv.sections[k] = "Recent Trading Activity"
    /\ (srv.pc = "returned" /\ ~srv.result.isError /\ srv.divisors = <<>>) =>
          /\ \A k \in DOMAIN srv.sections : srv.sections[k] # "Recent Trading Activity"
          /\ srv.tool = "get_trades" =>
                srv.sections = <<"No trades found matching the criteria.">>

(* get_trades has received an empty list and answered *)
C39_Witness ==
    /\ srv.tool = "get_trades"
    /\ srv.pc = "returned"
    /\ srv.outcomes = <<"200">>
    /\ srv.divisors = <<>>
    /\ srv.sections = <<"No trades found matching the criteria.">>

====
